---- MODULE Spec2Model ----
(***************************************************************************)
(* InfrastructureService (atlas-infrastructure-service): the create,       *)
(* update and destroy operations on the in-memory infrastructure and       *)
(* deployment-operation stores, with the cloud provider and the credential *)
(* resolver as the environment.                                            *)
(*                                                                         *)
(* Node runs one handler at a time: a handler runs until it awaits I/O (a  *)
(* provider call, the credential request, a timer).  One action is one     *)
(* such run; the task record keeps where the handler is suspended.         *)
(***************************************************************************)
EXTENDS Integers, Sequences, FiniteSets, TLC

\* ------------------------------------------------------------------ bounds
MaxCalls == 2      \* service calls (create / update / destroy) in one run
MaxReq   == 3      \* resource requests in one create request
MaxLifeCalls == 3  \* service calls in one run of SpecLife
MaxLifeReq   == 2  \* resource requests in one create request of SpecLife
MaxPairCalls == 3  \* service calls in one run of SpecPair
MaxFairCalls == 2  \* service calls in one run of SpecFair
MaxStreams   == 2  \* streamError calls in one run of SpecStream
MaxStreamed  == 102 \* streamError calls in one run of SpecBuffer

\* --------------------------------------------------------- program constants
maxBufferSize == 100
retryAttempts == 3

\* ------------------------------------------------------------ small helpers
None == {}
Some(x) == {x}
IsSome(o) == o # {}
The(o) == CHOOSE x \in o : TRUE

\* mutant: the old value is kept on a conflict
MergeOldWins(a, b) ==
  [k \in (DOMAIN a) \cup (DOMAIN b) |-> IF k \in DOMAIN a THEN a[k] ELSE b[k]]

\* { ...a, ...b }: the keys of both, b's value on a conflict
Merge(a, b) ==
  [k \in (DOMAIN a) \cup (DOMAIN b) |-> IF k \in DOMAIN b THEN b[k] ELSE a[k]]

Reverse(s) == [k \in 1..Len(s) |-> s[Len(s) + 1 - k]]

\* Array.prototype.find on the resource list: the first resource with that id
FindResource(resources, rid) ==
  LET hits == {k \in 1..Len(resources) : resources[k].id = rid}
  IN  IF hits = {} THEN 0 ELSE CHOOSE k \in hits : \A j \in hits : k <= j

\* ------------------------------------------------------------------ inputs
Users == {"u1", "u2"}
Workspaces == {"w1"}

\* one resource request of a create request: {type, name, specifications}
RequestAt(i) ==
  IF i % 3 = 1
    THEN [type |-> "droplet", name |-> "web", specifications |-> [size |-> "s-1vcpu-1gb"]]
  ELSE IF i % 3 = 2
    THEN [type |-> "volume", name |-> "data", specifications |-> [size |-> "10gb"]]
  ELSE [type |-> "database", name |-> "db", specifications |-> [size |-> "db-s-1vcpu-1gb"]]

\* the resource lists tried: droplet, volume, database in turn, starting with
\* the droplet or with the database
RequestLists == {[i \in 1..n |-> RequestAt(i + o)] : n \in 0..MaxReq, o \in {0, 2}}

\* a request for a provider nobody configures carries no resources (as in the
\* service's own test of it)
CreateRequests ==
  [name : {"infra"}, provider : {"digitalocean"}, region : {"nyc3"},
   resources : RequestLists, tags : {[team |-> "x"]}, configuration : {<<>>}]
  \cup [name : {"infra"}, provider : {"aws"}, region : {"nyc3"},
        resources : {<<>>}, tags : {[team |-> "x"]}, configuration : {<<>>}]

\* the create calls tried: the first user with every request, with and without
\* a jwtToken; the second user with a jwtToken and at most one resource
CreateInputs ==
  {in \in [userId : Users, workspaceId : Workspaces, request : CreateRequests,
           jwtToken : BOOLEAN] :
     in.userId = "u2" => (in.jwtToken /\ Len(in.request.resources) <= 1)}

\* --------------------------------------------------------------- providers
\* providers Map keys: the bare provider name, and `${provider}-${userId}`
BareKey(p) == <<p>>
UserKey(p, u) == <<p, u>>

\* what a DigitalOceanProvider charges per month, in 1/10000 dollar
MonthlyCost(rr) ==
  IF rr.type = "droplet" THEN 893 * 72      \* 0.00893 per hour * 24 * 30
  ELSE IF rr.type = "volume" THEN 10 * 1000 \* 10 GB * 0.10
  ELSE 15 * 10000                           \* db-s-1vcpu-1gb: 15.00

\* provider_id is optional in InfrastructureResource: the provider modelled
\* hands one back for a droplet and for a database and none for a volume
HasProviderId(rr) == rr.type # "volume"

\* uuidv4(): unique; the resource made for request i of service call c
ResourceId(c, i) == 10 * c + i
\* the id the cloud hands back for it
ProviderId(c, i) == 1000 + 10 * c + i
UnknownId == 99

CreateErrorMessage(rr) == <<"Failed to create", rr.type>>
DeleteErrorMessage(pid) == <<"Failed to delete resource", pid>>
\* calling a method of an undefined provider
TypeErrorMessage(method) == <<"Cannot read properties of undefined", method>>
NotConfiguredMessage(p) == <<"Provider", p, "not configured">>
NotFoundMessage(id) == <<"Resource not found:", id>>

VARIABLES
  envToken,              \* process.env.DIGITALOCEAN_API_TOKEN is set
  providers,             \* InfrastructureService.providers
  infrastructures,       \* InfrastructureService.infrastructures
  deploymentOperations,  \* InfrastructureService.deploymentOperations
  tasks,                 \* one record per service call: where its handler stands
  providerCalls,         \* per service call, the provider calls it has issued
  statusWrites,          \* per operation, every value assigned to its status
  clock,                 \* new Date(); it is seen to advance when an operation opens
  streamBuffer,          \* ErrorStreamingService.streamBuffer
  emitted,               \* the events emitted as 'error-streamed', in order
  streams,               \* one record per streamError call: where it stands
  returned               \* what the latest getRecentErrors call returned

vars == <<envToken, providers, infrastructures, deploymentOperations, tasks,
          providerCalls, statusWrites, clock, streamBuffer, emitted, streams, returned>>

\* the error streaming service is a separate object: the infrastructure
\* service does not touch it, nor it the infrastructure service
streamVars == <<streamBuffer, emitted, streams, returned>>
serviceVars == <<envToken, providers, infrastructures, deploymentOperations, tasks,
                 providerCalls, statusWrites, clock>>

Calls == DOMAIN tasks
NextCall == Cardinality(Calls) + 1

\* ------------------------------------------------------------------- Init
\* constructor + initializeFallbackProviders.  A provider is an object: obj
\* tells two objects made from the same token apart (0: made by the
\* constructor, c: made while service call c fetched credentials)
FallbackProviders(env) ==
  IF env THEN (BareKey("digitalocean") :> [token |-> <<"env">>, obj |-> 0]) ELSE <<>>

Init ==
  /\ envToken \in BOOLEAN
  /\ providers = FallbackProviders(envToken)
  /\ infrastructures = <<>>
  /\ deploymentOperations = <<>>
  /\ tasks = <<>>
  /\ providerCalls = <<>>
  /\ statusWrites = <<>>
  /\ clock = 1
  /\ streamBuffer = <<>>
  /\ emitted = <<>>
  /\ streams = <<>>
  /\ returned = None

\* A context is what one handler run works on: the infrastructure record, the
\* operation record, its task, its provider-call log and its status writes.
Ctx(c, inf, op, t) ==
  [inf |-> inf, op |-> op, t |-> t,
   log |-> IF c \in DOMAIN providerCalls THEN providerCalls[c] ELSE <<>>,
   sw |-> IF c \in DOMAIN statusWrites THEN statusWrites[c] ELSE <<>>]

SetStatus(x, s) == [x EXCEPT !.op.status = s, !.sw = Append(@, s)]

Put(f, k, v) == IF k \in DOMAIN f THEN [f EXCEPT ![k] = v] ELSE f @@ (k :> v)

\* mutant: the status is written to every Infrastructure of the workspace
CommitWorkspaceWide(c, x) ==
  /\ infrastructures' =
       [i \in DOMAIN Put(infrastructures, x.inf.id, x.inf) |->
          IF i = x.inf.id THEN x.inf
          ELSE IF infrastructures[i].workspace_id = x.inf.workspace_id
            THEN [infrastructures[i] EXCEPT !.status = x.inf.status]
          ELSE infrastructures[i]]
  /\ deploymentOperations' = Put(deploymentOperations, x.op.id, x.op)
  /\ tasks' = Put(tasks, c, x.t)
  /\ providerCalls' = Put(providerCalls, c, x.log)
  /\ statusWrites' = Put(statusWrites, c, x.sw)

\* write a context back to the stores
Commit(c, x) ==
  /\ infrastructures' = Put(infrastructures, x.inf.id, x.inf)
  /\ deploymentOperations' = Put(deploymentOperations, x.op.id, x.op)
  /\ tasks' = Put(tasks, c, x.t)
  /\ providerCalls' = Put(providerCalls, c, x.log)
  /\ statusWrites' = Put(statusWrites, c, x.sw)

\* ------------------------------------------------- createInfrastructure
NewTask(kind, userId, workspaceId, request, jwtToken, target) ==
  [kind |-> kind, pc |-> "start", userId |-> userId, workspaceId |-> workspaceId,
   request |-> request, jwtToken |-> jwtToken, target |-> target,
   provider |-> None, i |-> 0, list |-> <<>>,
   resolverCalls |-> 0, outcome |-> "pending", error |-> None, result |-> None,
   detached |-> FALSE, tool |-> None]

\* mutant: only the general entry is consulted
ResolveProviderFallbackOnly(provs, request, userId) ==
  IF BareKey(request.provider) \in DOMAIN provs
    THEN Some(provs[BareKey(request.provider)])
    ELSE None

\* lines 568-570: the user-specific entry first, then the general one
ResolveProvider(provs, request, userId) ==
  IF UserKey(request.provider, userId) \in DOMAIN provs
    THEN Some(provs[UserKey(request.provider, userId)])
  ELSE IF BareKey(request.provider) \in DOMAIN provs
    THEN Some(provs[BareKey(request.provider)])
  ELSE None

\* line 655: deployInfrastructure's own lookup
DeployProvider(provs, inf) ==
  IF BareKey(inf.provider) \in DOMAIN provs THEN Some(provs[BareKey(inf.provider)]) ELSE None

\* line 986: cleanupFailedDeployment's own lookup
CleanupProvider(provs, inf) ==
  IF BareKey(inf.provider) \in DOMAIN provs THEN Some(provs[BareKey(inf.provider)]) ELSE None

\* lines 577-591
NewInfrastructure(c, t, now) ==
  [id |-> c, name |-> t.request.name, workspace_id |-> t.workspaceId,
   user_id |-> t.userId, provider |-> t.request.provider, region |-> t.request.region,
   resources |-> <<>>, status |-> "pending", created_at |-> now, updated_at |-> now,
   deployed_at |-> None, destroyed_at |-> None, estimated_monthly_cost |-> 0,
   tags |-> t.request.tags, configuration |-> t.request.configuration]

\* lines 594-606, 736-748, 827-839
NewOperation(c, infId, type, total, cost, now) ==
  [id |-> c, infrastructure_id |-> infId, operation_type |-> type, status |-> "pending",
   started_at |-> now, completed_at |-> None, error_message |-> None,
   total_steps |-> total, completed_steps |-> 0, current_step |-> <<>>,
   created_resources |-> <<>>, updated_resources |-> <<>>, deleted_resources |-> <<>>,
   cost_change |-> cost]

\* mutant: a failed deployment is handed back instead of raised
CreateSettleReturns(x, now) ==
  [x EXCEPT !.t.pc = "done", !.t.outcome = "returned"]

\* lines 617-640: after deployInfrastructure has returned
CreateSettle(x, now) ==
  IF x.op.status = "completed"
    THEN [x EXCEPT !.t.pc = "done", !.t.outcome = "returned"]
  ELSE LET msg == <<"Deployment failed with status:", x.op.status>>
           x1 == SetStatus(x, "failed")
       IN  [x1 EXCEPT !.op.error_message = Some(msg),
                      !.op.completed_at = Some(now),
                      !.inf.status = "error",
                      !.t.pc = "done", !.t.outcome = "raised",
                      !.t.error = Some([code |-> "Error", message |-> msg])]

\* deployInfrastructure has come to its end: the createInfrastructure that
\* awaited it goes on (lines 617-640); the one that started it detached (lines
\* 1381-1388) has returned long before, and its .catch has nothing to catch
DeploySettled(x, now) ==
  IF x.t.detached THEN [x EXCEPT !.t.pc = "done"] ELSE CreateSettle(x, now)

\* lines 988-1000 from created_resources[j] on: skip what has no provider_id,
\* stop at the first deleteResource call that is awaited
RECURSIVE CleanupFrom(_, _, _, _)
CleanupFrom(x, j, provs, now) ==
  IF j > Len(x.op.created_resources) THEN DeploySettled(x, now)
  ELSE LET rid == x.op.created_resources[j]
           k == FindResource(x.inf.resources, rid)
       IN  IF k # 0 /\ IsSome(x.inf.resources[k].provider_id)
             THEN IF IsSome(CleanupProvider(provs, x.inf))
                    THEN [x EXCEPT !.t.pc = "cleanup", !.t.i = j,
                            !.log = Append(@, [method |-> "deleteResource", resource |-> rid,
                                               arg |-> x.inf.resources[k].provider_id,
                                               by |-> CleanupProvider(provs, x.inf),
                                               from |-> "cleanup", result |-> "pending"])]
                    ELSE CleanupFrom(x, j + 1, provs, now)   \* TypeError, caught at 996
             ELSE CleanupFrom(x, j + 1, provs, now)

\* mutant: the failed step is tried again
DeployCatchRetry(x, msg, provs, now) ==
  [x EXCEPT !.t.pc = "createResource",
            !.log = Append(@, [method |-> "createResource", resource |-> x.t.i,
                               arg |-> None, by |-> x.t.provider,
                               from |-> "deploy", result |-> "pending"])]

\* mutant: the rollback walks the created resources newest first
DeployCatchReversing(x, msg, provs, now) ==
  LET x1 == SetStatus(x, "failed")
      x2 == [x1 EXCEPT !.op.error_message = Some(msg),
                       !.op.completed_at = Some(now),
                       !.op.created_resources = Reverse(@),
                       !.inf.status = "error",
                       !.inf.updated_at = now]
  IN  CleanupFrom(x2, 1, provs, now)

\* lines 693-701: the catch of deployInfrastructure
DeployCatch(x, msg, provs, now) ==
  LET x1 == SetStatus(x, "failed")
      x2 == [x1 EXCEPT !.op.error_message = Some(msg),
                       !.op.completed_at = Some(now),
                       !.inf.status = "error",
                       !.inf.updated_at = now]
  IN  CleanupFrom(x2, 1, provs, now)

\* mutant: cost_change is left as it was opened
DeployCompletedNoCost(x, now) ==
  LET x1 == SetStatus(x, "completed")
      x2 == [x1 EXCEPT !.op.completed_at = Some(now),
                       !.inf.status = "active",
                       !.inf.deployed_at = Some(now),
                       !.inf.updated_at = now]
  IN  CreateSettle(x2, now)

\* lines 684-691
DeployCompleted(x, now) ==
  LET x1 == SetStatus(x, "completed")
      x2 == [x1 EXCEPT !.op.completed_at = Some(now),
                       !.inf.status = "active",
                       !.inf.deployed_at = Some(now),
                       !.inf.updated_at = now]
  IN  DeploySettled([x2 EXCEPT !.op.cost_change = x2.inf.estimated_monthly_cost], now)

\* mutant: the provider is called on before the list is looked at
DeployIterationNeedsProvider(x, i, provs, now) ==
  IF x.t.provider = None THEN DeployCatch(x, TypeErrorMessage("createResource"), provs, now)
  ELSE IF i > Len(x.t.request.resources) THEN DeployCompleted(x, now)
  ELSE LET rr == x.t.request.resources[i]
           x1 == [x EXCEPT !.op.current_step = <<"Creating", rr.type, rr.name>>]
       IN  [x1 EXCEPT !.t.pc = "createResource", !.t.i = i,
              !.log = Append(@, [method |-> "createResource", resource |-> i,
                                 arg |-> None, by |-> x.t.provider,
                                 from |-> "deploy", result |-> "pending"])]

\* mutant: the call for the next request is issued along with this one
DeployIterationTwoAtOnce(x, i, provs, now) ==
  IF i > Len(x.t.request.resources) THEN DeployCompleted(x, now)
  ELSE LET rr == x.t.request.resources[i]
           x1 == [x EXCEPT !.op.current_step = <<"Creating", rr.type, rr.name>>]
           call(j) == [method |-> "createResource", resource |-> j, arg |-> None,
                       by |-> x.t.provider, from |-> "deploy", result |-> "pending"]
       IN  IF IsSome(x.t.provider)
             THEN [x1 EXCEPT !.t.pc = "createResource", !.t.i = i,
                     !.log = IF i < Len(x.t.request.resources)
                               THEN Append(Append(@, call(i + 1)), call(i))
                               ELSE Append(@, call(i))]
             ELSE DeployCatch(x1, TypeErrorMessage("createResource"), provs, now)

\* lines 658-670: iteration i of the loop up to its provider call
DeployIteration(x, i, provs, now) ==
  IF i > Len(x.t.request.resources) THEN DeployCompleted(x, now)
  ELSE LET rr == x.t.request.resources[i]
           x1 == [x EXCEPT !.op.current_step = <<"Creating", rr.type, rr.name>>]
       IN  IF IsSome(x.t.provider)
             THEN [x1 EXCEPT !.t.pc = "createResource", !.t.i = i,
                     !.log = Append(@, [method |-> "createResource", resource |-> i,
                                        arg |-> None, by |-> x.t.provider,
                                        from |-> "deploy", result |-> "pending"])]
             ELSE DeployCatch(x1, TypeErrorMessage("createResource"), provs, now)

\* mutant: the operation is never marked in_progress
DeployStartNoProgress(x, provs, now) ==
  DeployIteration([x EXCEPT !.op.current_step = <<"Starting deployment">>,
                            !.inf.status = "provisioning",
                            !.t.provider = DeployProvider(provs, x.inf)],
                  1, provs, now)

\* lines 651-655
DeployStart(x, provs, now) ==
  LET x1 == SetStatus(x, "in_progress")
      x2 == [x1 EXCEPT !.op.current_step = <<"Starting deployment">>,
                       !.inf.status = "provisioning",
                       !.t.provider = DeployProvider(provs, x.inf)]
  IN  DeployIteration(x2, 1, provs, now)

\* lines 568-614: from the provider check on
CreateResolved(c, t, provs) ==
  IF ResolveProvider(provs, t.request, t.userId) = None
    THEN /\ tasks' = Put(tasks, c,
                [t EXCEPT !.pc = "done", !.outcome = "raised",
                          !.error = Some([code |-> "PROVIDER_NOT_CONFIGURED",
                                          message |-> NotConfiguredMessage(t.request.provider)])])
         /\ UNCHANGED <<infrastructures, deploymentOperations, providerCalls, statusWrites,
                        clock>>
    ELSE LET inf == NewInfrastructure(c, t, clock)
             op == NewOperation(c, c, "create", Len(t.request.resources), 0, clock)
             x0 == [inf |-> inf, op |-> op, t |-> [t EXCEPT !.target = c],
                    log |-> <<>>, sw |-> <<"pending">>]
         IN  /\ Commit(c, DeployStart(x0, provs, clock))
             /\ clock' = clock + 1

\* createInfrastructure(userId, workspaceId, request, jwtToken): lines 557-566
CreateInfrastructure(userId, workspaceId, request, jwtToken) ==
  /\ LET c == NextCall
         t == NewTask("create", userId, workspaceId, request, jwtToken, 0)
     IN  IF jwtToken
           THEN /\ tasks' = Put(tasks, c, [t EXCEPT !.pc = "credentials", !.resolverCalls = 1])
                /\ UNCHANGED <<providers, infrastructures, deploymentOperations,
                               providerCalls, statusWrites, clock>>
           ELSE /\ CreateResolved(c, t, providers)
                /\ UNCHANGED providers
  /\ UNCHANGED <<streamVars, envToken, streamVars>>

\* mutant: the call does not return before the deployment has ended
DetachedReturnAwaiting(t) == t

\* lines 1381-1390: deployInfrastructure is started, not awaited, and the call
\* returns the two records
DetachedReturn(t) == [t EXCEPT !.outcome = "returned"]

\* The service variant whose createInfrastructure(userId, workspaceId, request)
\* takes no jwtToken (lines 1332-1390): the provider is looked up by its bare
\* name, the records are stored, and deployInfrastructure runs up to its first
\* await before the call returns.
CreateInfrastructureDetached(userId, workspaceId, request) ==
  /\ LET c == NextCall
         t == [NewTask("create", userId, workspaceId, request, FALSE, 0)
                 EXCEPT !.detached = TRUE]
     IN  IF BareKey(request.provider) \notin DOMAIN providers
           THEN /\ tasks' = Put(tasks, c,
                       [t EXCEPT !.pc = "done", !.outcome = "raised",
                                 !.error = Some([code |-> "PROVIDER_NOT_CONFIGURED",
                                                 message |->
                                                   NotConfiguredMessage(request.provider)])])
                /\ UNCHANGED <<infrastructures, deploymentOperations, providerCalls,
                               statusWrites, clock>>
           ELSE LET inf == NewInfrastructure(c, t, clock)
                    op == NewOperation(c, c, "create", Len(request.resources), 0, clock)
                    x0 == [inf |-> inf, op |-> op,
                           t |-> DetachedReturn([t EXCEPT !.target = c]),
                           log |-> <<>>, sw |-> <<"pending">>]
                IN  /\ Commit(c, DeployStart(x0, providers, clock))
                    /\ clock' = clock + 1
  /\ UNCHANGED <<streamVars, envToken, providers>>

\* what contextService.getProviderCredentials resolves to
CredentialOutcomes == {"token", "absent", "unreachable"}

\* ContextService.getCredential: the stored token, or undefined when there is
\* none or the Context Manager cannot be reached (its catch returns undefined)
CredentialToken(outcome, userId) ==
  IF outcome = "token" THEN Some(<<"ctx", userId>>) ELSE None

\* mutant: the new provider is also put under the bare provider name
BindUserProviderEvicting(provs, userId, token, c) ==
  IF IsSome(token)
    THEN Put(Put(provs, UserKey("digitalocean", userId), [token |-> The(token), obj |-> c]),
             BareKey("digitalocean"), [token |-> The(token), obj |-> c])
    ELSE provs

\* lines 541-548
BindUserProvider(provs, userId, token, c) ==
  IF IsSome(token)
    THEN Put(provs, UserKey("digitalocean", userId), [token |-> The(token), obj |-> c])
    ELSE provs

\* initializeUserProviders resumes, then createInfrastructure goes on
CredentialsReturn(c, outcome) ==
  /\ c \in Calls
  /\ tasks[c].pc = "credentials"
  /\ LET t == tasks[c]
         provs == BindUserProvider(providers, t.userId, CredentialToken(outcome, t.userId), c)
     IN  /\ providers' = provs
         /\ CreateResolved(c, t, provs)
  /\ UNCHANGED <<streamVars, envToken, streamVars>>

\* the resource a successful createResource returns
NewResource(c, i, rr, inf, now) ==
  [id |-> ResourceId(c, i), type |-> rr.type, name |-> rr.name,
   provider_id |-> IF HasProviderId(rr) THEN Some(ProviderId(c, i)) ELSE None,
   specifications |-> Merge(rr.specifications, [name |-> rr.name, region |-> inf.region]),
   status |-> "creating", updated_at |-> now, monthly_cost |-> MonthlyCost(rr)]

SetResult(log, r) == [log EXCEPT ![Len(log)].result = r]

\* mutant: a created resource is also listed as updated
DeployAppendAlsoUpdated(x, resource) ==
  [x EXCEPT !.inf.resources = Append(@, resource),
            !.op.created_resources = Append(@, resource.id),
            !.op.updated_resources = Append(@, resource.id),
            !.op.completed_steps = @ + 1,
            !.inf.estimated_monthly_cost = @ + resource.monthly_cost,
            !.t.pc = "delay"]

\* lines 672-681: createResource has resolved
DeployAppend(x, resource) ==
  [x EXCEPT !.inf.resources = Append(@, resource),
            !.op.created_resources = Append(@, resource.id),
            !.op.completed_steps = @ + 1,
            !.inf.estimated_monthly_cost = @ + resource.monthly_cost,
            !.t.pc = "delay"]

CreateResourceReturn(c, ok) ==
  /\ c \in Calls
  /\ tasks[c].pc = "createResource"
  /\ LET t == tasks[c]
         x == Ctx(c, infrastructures[t.target], deploymentOperations[c], t)
         rr == t.request.resources[t.i]
         x1 == [x EXCEPT !.log = SetResult(@, IF ok THEN "ok" ELSE "failed")]
     IN  IF ok
           THEN Commit(c, DeployAppend(x1, NewResource(c, t.i, rr, x.inf, clock)))
           ELSE Commit(c, DeployCatch(x1, CreateErrorMessage(rr), providers, clock))
  /\ UNCHANGED <<streamVars, envToken, providers, clock>>

\* line 681: the 1000 ms timer has fired
CreateDelayReturn(c) ==
  /\ c \in Calls
  /\ tasks[c].kind = "create"
  /\ tasks[c].pc = "delay"
  /\ LET t == tasks[c]
         x == Ctx(c, infrastructures[t.target], deploymentOperations[c], t)
     IN  Commit(c, DeployIteration(x, t.i + 1, providers, clock))
  /\ UNCHANGED <<streamVars, envToken, providers, clock>>

\* mutant: a rolled-back resource is dropped from the list
CleanupMarkRemoving(x, rid, ok) ==
  IF ok
    THEN [x EXCEPT !.inf.resources = SelectSeq(@, LAMBDA r : r.id # rid),
                   !.op.deleted_resources = Append(@, rid)]
    ELSE x

\* lines 993-998: a cleanup deleteResource has resolved or thrown
CleanupMark(x, rid, ok) ==
  IF ok
    THEN LET k == FindResource(x.inf.resources, rid)
         IN  [x EXCEPT !.inf.resources[k].status = "deleted",
                       !.op.deleted_resources = Append(@, rid)]
    ELSE x

\* mutant: the rollback gives up at the first delete that fails
CleanupDeleteReturnAborting(c, ok) ==
  /\ c \in Calls
  /\ tasks[c].pc = "cleanup"
  /\ LET t == tasks[c]
         x == Ctx(c, infrastructures[t.target], deploymentOperations[c], t)
         x1 == [x EXCEPT !.log = SetResult(@, IF ok THEN "ok" ELSE "failed")]
         rid == x.op.created_resources[t.i]
     IN  IF ok
           THEN Commit(c, CleanupFrom(CleanupMark(x1, rid, ok), t.i + 1, providers, clock))
           ELSE Commit(c, CreateSettle(x1, clock))
  /\ UNCHANGED <<streamVars, envToken, providers, clock>>

CleanupDeleteReturn(c, ok) ==
  /\ c \in Calls
  /\ tasks[c].pc = "cleanup"
  /\ LET t == tasks[c]
         x == Ctx(c, infrastructures[t.target], deploymentOperations[c], t)
         x1 == [x EXCEPT !.log = SetResult(@, IF ok THEN "ok" ELSE "failed")]
         rid == x.op.created_resources[t.i]
     IN  Commit(c, CleanupFrom(CleanupMark(x1, rid, ok), t.i + 1, providers, clock))
  /\ UNCHANGED <<streamVars, envToken, providers, clock>>

\* ------------------------------------------------- updateInfrastructure
\* an update request: name, tags, configuration and resources are all optional
UpdateRequest(name, tags, configuration, resources) ==
  [name |-> name, tags |-> tags, configuration |-> configuration, resources |-> resources]

\* one patch of request.resources: {id, specifications?}
ResourcePatch(rid, withSpecifications) ==
  [id |-> rid,
   specifications |-> IF withSpecifications THEN Some([size |-> "s-2vcpu-2gb"]) ELSE None]

PatchTargets(inf) ==
  {inf.resources[k].id : k \in {Len(inf.resources)} \ {0}} \cup {UnknownId}

\* the newest resource of the infrastructure, an unknown id when it has none
LastTarget(inf) ==
  IF inf.resources = <<>> THEN UnknownId ELSE inf.resources[Len(inf.resources)].id

\* the update requests tried on an infrastructure: tags and configuration alone;
\* a new name with an empty patch list; two patches for one resource; a patch
\* for a resource it has not, followed by a patch without specifications
UpdateRequests(inf) ==
  { UpdateRequest(None, Some([env |-> "prod"]), Some([backup |-> "on"]), None),
    UpdateRequest(Some("renamed"), Some([team |-> "y"]), None, Some(<<>>)),
    UpdateRequest(None, None, None,
                  Some(<<ResourcePatch(LastTarget(inf), TRUE),
                         ResourcePatch(LastTarget(inf), TRUE)>>)) }
  \cup { UpdateRequest(None, None, None,
                       Some(<<ResourcePatch(UnknownId, TRUE), ResourcePatch(r, FALSE)>>)) :
           r \in PatchTargets(inf) \ {UnknownId} }

\* mutant: a patch with specifications is sent to the provider
ApplyPatchCallingProvider(x, patch, now) ==
  LET k == FindResource(x.inf.resources, patch.id)
  IN  IF k = 0 THEN x
      ELSE LET r == x.inf.resources[k]
               x1 == [x EXCEPT !.op.current_step = <<"Updating", r.type, r.name>>]
               x2 == IF IsSome(patch.specifications)
                       THEN [x1 EXCEPT
                               !.inf.resources[k].specifications =
                                   Merge(@, The(patch.specifications)),
                               !.inf.resources[k].updated_at = now,
                               !.op.updated_resources = Append(@, r.id),
                               !.log = Append(@, [method |-> "updateResource",
                                                  resource |-> r.id, arg |-> r.provider_id,
                                                  by |-> None, from |-> "update",
                                                  result |-> "ok"])]
                       ELSE x1
           IN  [x2 EXCEPT !.op.completed_steps = @ + 1]

\* lines 786-798: one resource patch
ApplyPatch(x, patch, now) ==
  LET k == FindResource(x.inf.resources, patch.id)
  IN  IF k = 0 THEN x
      ELSE LET r == x.inf.resources[k]
               x1 == [x EXCEPT !.op.current_step = <<"Updating", r.type, r.name>>]
               x2 == IF IsSome(patch.specifications)
                       THEN [x1 EXCEPT
                               !.inf.resources[k].specifications =
                                   Merge(@, The(patch.specifications)),
                               !.inf.resources[k].updated_at = now,
                               !.op.updated_resources = Append(@, r.id)]
                       ELSE x1
           IN  [x2 EXCEPT !.op.completed_steps = @ + 1]

\* lines 784-800
RECURSIVE ApplyPatches(_, _, _)
ApplyPatches(x, patches, now) ==
  IF patches = <<>> THEN x
  ELSE ApplyPatches(ApplyPatch(x, Head(patches), now), Tail(patches), now)

\* lines 769-805: performUpdate awaits nothing, so it runs to its end at once
PerformUpdate(x, request, now) ==
  LET x1 == SetStatus(x, "in_progress")
      x2 == [x1 EXCEPT
               !.inf.status = "updating",
               !.inf.name = IF IsSome(request.name) THEN The(request.name) ELSE @,
               !.inf.tags = IF IsSome(request.tags) THEN Merge(@, The(request.tags)) ELSE @,
               !.inf.configuration =
                   IF IsSome(request.configuration)
                     THEN Merge(@, The(request.configuration)) ELSE @,
               !.op.current_step = <<"Updating infrastructure properties">>,
               !.op.completed_steps = @ + 1]
      x3 == IF IsSome(request.resources)
              THEN ApplyPatches(x2, The(request.resources), now) ELSE x2
      x4 == SetStatus(x3, "completed")
  IN  [x4 EXCEPT !.op.completed_at = Some(now),
                 !.inf.status = "active",
                 !.inf.updated_at = now]

\* mutant: the step for the infrastructure's own properties is not counted
UpdateTotalStepsPatchesOnly(request) ==
  IF IsSome(request.resources) THEN Len(The(request.resources)) ELSE 0

\* line 742
UpdateTotalSteps(request) ==
  (IF IsSome(request.resources) THEN Len(The(request.resources)) ELSE 0) + 1

\* mutant: the unknown id is recorded as a failed Operation, as a provider
\* failure would be
NotFoundAsFailedOperation(c, t, id) ==
  /\ tasks' = Put(tasks, c,
       [t EXCEPT !.pc = "done", !.outcome = "raised",
                 !.error = Some([code |-> "PROVIDER_ERROR",
                                 message |-> NotFoundMessage(id)])])
  /\ deploymentOperations' =
       Put(deploymentOperations, c,
           [NewOperation(c, id, t.kind, 0, 0, clock)
              EXCEPT !.status = "failed", !.error_message = Some(NotFoundMessage(id))])
  /\ statusWrites' = Put(statusWrites, c, <<"pending", "failed">>)
  /\ providerCalls' = Put(providerCalls, c, <<>>)
  /\ UNCHANGED <<infrastructures, clock>>

\* lines 728-731 and 819-822
NotFound(c, t, id) ==
  /\ tasks' = Put(tasks, c,
       [t EXCEPT !.pc = "done", !.outcome = "raised",
                 !.error = Some([code |-> "RESOURCE_NOT_FOUND",
                                 message |-> NotFoundMessage(id)])])
  /\ UNCHANGED <<infrastructures, deploymentOperations, providerCalls, statusWrites, clock>>

\* updateInfrastructure(id, request): lines 724-762
UpdateInfrastructure(id, request) ==
  /\ LET c == NextCall
         t == NewTask("update", "", "", request, FALSE, id)
     IN  IF id \notin DOMAIN infrastructures
           THEN NotFound(c, t, id)
           ELSE LET op == NewOperation(c, id, "update", UpdateTotalSteps(request), 0, clock)
                    x0 == [inf |-> infrastructures[id], op |-> op,
                           t |-> [t EXCEPT !.pc = "done", !.outcome = "returned"],
                           log |-> <<>>, sw |-> <<"pending">>]
                IN  /\ Commit(c, PerformUpdate(x0, request, clock))
                    /\ clock' = clock + 1
  /\ UNCHANGED <<streamVars, envToken, providers>>

\* ------------------------------------------------ destroyInfrastructure
\* line 862: performDestruction's own lookup
DestroyProvider(provs, inf) ==
  IF BareKey(inf.provider) \in DOMAIN provs THEN Some(provs[BareKey(inf.provider)]) ELSE None

\* mutant: the loop ends on a failure without closing its Operation
DestroyCatchLeavesOpen(x, msg, now) ==
  [x EXCEPT !.inf.status = "error", !.t.pc = "done"]

\* mutant: the failure's message is not kept
DestroyCatchNoMessage(x, msg, now) ==
  LET x1 == SetStatus(x, "failed")
  IN  [x1 EXCEPT !.op.completed_at = Some(now),
                 !.inf.status = "error",
                 !.t.pc = "done"]

\* mutant: the Infrastructure keeps the status it had
DestroyCatchKeepsStatus(x, msg, now) ==
  LET x1 == SetStatus(x, "failed")
  IN  [x1 EXCEPT !.op.error_message = Some(msg),
                 !.op.completed_at = Some(now),
                 !.t.pc = "done"]

\* lines 889-894
DestroyCatch(x, msg, now) ==
  LET x1 == SetStatus(x, "failed")
  IN  [x1 EXCEPT !.op.error_message = Some(msg),
                 !.op.completed_at = Some(now),
                 !.inf.status = "error",
                 !.t.pc = "done"]

\* lines 883-887
DestroyCompleted(x, now) ==
  LET x1 == SetStatus(x, "completed")
  IN  [x1 EXCEPT !.op.completed_at = Some(now),
                 !.inf.status = "destroyed",
                 !.inf.destroyed_at = Some(now),
                 !.inf.updated_at = now,
                 !.t.pc = "done"]

\* mutant: a resource without provider_id is passed over
DestroyMarkWithIdOnly(x, rid) ==
  LET k == FindResource(x.inf.resources, rid)
  IN  IF IsSome(x.inf.resources[k].provider_id)
        THEN [x EXCEPT !.inf.resources[k].status = "deleted",
                       !.op.deleted_resources = Append(@, rid),
                       !.op.completed_steps = @ + 1,
                       !.t.pc = "delay"]
        ELSE [x EXCEPT !.t.pc = "delay"]

\* mutant: a destroyed resource is taken out of the list
DestroyMarkRemoving(x, rid) ==
  [x EXCEPT !.inf.resources = SelectSeq(@, LAMBDA r : r.id # rid),
            !.op.deleted_resources = Append(@, rid),
            !.op.completed_steps = @ + 1,
            !.t.pc = "delay"]

\* lines 875-880
DestroyMark(x, rid) ==
  LET k == FindResource(x.inf.resources, rid)
  IN  [x EXCEPT !.inf.resources[k].status = "deleted",
                !.op.deleted_resources = Append(@, rid),
                !.op.completed_steps = @ + 1,
                !.t.pc = "delay"]

\* mutant: deleteResource is called whether or not there is a provider_id
DestroyIterationUnguarded(x, k, now) ==
  IF k > Len(x.t.list) THEN DestroyCompleted(x, now)
  ELSE LET rid == x.t.list[k]
           r == x.inf.resources[FindResource(x.inf.resources, rid)]
           x1 == [x EXCEPT !.op.current_step = <<"Destroying", r.type, r.name>>, !.t.i = k]
       IN  IF IsSome(x.t.provider)
             THEN [x1 EXCEPT !.t.pc = "deleteResource",
                     !.log = Append(@, [method |-> "deleteResource", resource |-> rid,
                                        arg |-> r.provider_id, by |-> x.t.provider,
                                        from |-> "destroy", result |-> "pending"])]
             ELSE DestroyCatch(x1, TypeErrorMessage("deleteResource"), now)

\* lines 868-873: entry k of resourcesToDestroy up to its provider call
DestroyIteration(x, k, now) ==
  IF k > Len(x.t.list) THEN DestroyCompleted(x, now)
  ELSE LET rid == x.t.list[k]
           r == x.inf.resources[FindResource(x.inf.resources, rid)]
           x1 == [x EXCEPT !.op.current_step = <<"Destroying", r.type, r.name>>, !.t.i = k]
       IN  IF IsSome(r.provider_id)
             THEN IF IsSome(x.t.provider)
                    THEN [x1 EXCEPT !.t.pc = "deleteResource",
                            !.log = Append(@, [method |-> "deleteResource", resource |-> rid,
                                               arg |-> r.provider_id,
                                               by |-> x.t.provider, from |-> "destroy",
                                               result |-> "pending"])]
                    ELSE DestroyCatch(x1, TypeErrorMessage("deleteResource"), now)
             ELSE DestroyMark(x1, rid)

\* mutant: the resources are taken in creation order
DestroyStartForward(x, provs, now) ==
  LET x1 == SetStatus(x, "in_progress")
      x2 == [x1 EXCEPT
               !.inf.status = "destroying",
               !.t.provider = DestroyProvider(provs, x.inf),
               !.t.list = [k \in 1..Len(x.inf.resources) |-> x.inf.resources[k].id]]
  IN  DestroyIteration(x2, 1, now)

\* lines 859-866
DestroyStart(x, provs, now) ==
  LET x1 == SetStatus(x, "in_progress")
      x2 == [x1 EXCEPT
               !.inf.status = "destroying",
               !.t.provider = DestroyProvider(provs, x.inf),
               !.t.list = Reverse([k \in 1..Len(x.inf.resources) |-> x.inf.resources[k].id])]
  IN  DestroyIteration(x2, 1, now)

\* destroyInfrastructure(id), lines 818-853, called directly (tool = None) or
\* by the MCP tool with the input it was given
DestroyCall(id, tool) ==
  /\ LET c == NextCall
         t == [NewTask("destroy", "", "", <<>>, FALSE, id) EXCEPT !.tool = tool]
     IN  IF id \notin DOMAIN infrastructures
           THEN NotFound(c, t, id)
           ELSE LET inf == infrastructures[id]
                    op == NewOperation(c, id, "destroy", Len(inf.resources),
                                       0 - inf.estimated_monthly_cost, clock)
                    x0 == [inf |-> inf, op |-> op, t |-> [t EXCEPT !.outcome = "returned"],
                           log |-> <<>>, sw |-> <<"pending">>]
                IN  /\ Commit(c, DestroyStart(x0, providers, clock))
                    /\ clock' = clock + 1
  /\ UNCHANGED <<streamVars, envToken, providers>>

DestroyInfrastructure(id) == DestroyCall(id, None)

\* what the destroy_infrastructure tool may be given as confirm: a boolean, or
\* nothing, which DestroyInfrastructureSchema rejects
ToolConfirms == {"true", "false", "missing"}

\* mutant: the confirmation is not looked at
ConfirmedAlways(confirm) == TRUE

\* server.ts line 615: if (!params.confirm) ...
Confirmed(confirm) == confirm = "true"

\* the tool ends without calling the service: createMCPResult(..., true)
ToolRefuses(id, confirm) ==
  /\ tasks' = Put(tasks, NextCall,
                  [NewTask("destroy_infrastructure", "", "", <<>>, FALSE, id)
                     EXCEPT !.pc = "done", !.outcome = "returned",
                            !.tool = Some(confirm), !.result = Some("isError")])
  /\ UNCHANGED <<streamVars, envToken, providers, infrastructures, deploymentOperations,
                 providerCalls, statusWrites, clock>>

\* the destroy_infrastructure MCP tool, server.ts lines 611-638, under callTool
\* (lines 58-113), which turns a validation error into an error result
DestroyInfrastructureTool(id, confirm) ==
  IF confirm = "missing" THEN ToolRefuses(id, confirm)
  ELSE IF ~Confirmed(confirm) THEN ToolRefuses(id, confirm)
  ELSE DestroyCall(id, Some(confirm))

\* mutant: a failed delete is passed over and the loop goes on, as in rollback
DestroyDeleteReturnBestEffort(c, ok) ==
  /\ c \in Calls
  /\ tasks[c].pc = "deleteResource"
  /\ LET t == tasks[c]
         x == Ctx(c, infrastructures[t.target], deploymentOperations[c], t)
         x1 == [x EXCEPT !.log = SetResult(@, IF ok THEN "ok" ELSE "failed")]
     IN  IF ok
           THEN Commit(c, DestroyMark(x1, t.list[t.i]))
           ELSE Commit(c, DestroyIteration(x1, t.i + 1, clock))
  /\ UNCHANGED <<streamVars, envToken, providers, clock>>

\* line 872: the deleteResource call has resolved or thrown
DestroyDeleteReturn(c, ok) ==
  /\ c \in Calls
  /\ tasks[c].pc = "deleteResource"
  /\ LET t == tasks[c]
         x == Ctx(c, infrastructures[t.target], deploymentOperations[c], t)
         x1 == [x EXCEPT !.log = SetResult(@, IF ok THEN "ok" ELSE "failed")]
         r == x.inf.resources[FindResource(x.inf.resources, t.list[t.i])]
     IN  IF ok
           THEN Commit(c, DestroyMark(x1, t.list[t.i]))
           ELSE Commit(c, DestroyCatch(x1, DeleteErrorMessage(The(r.provider_id)), clock))
  /\ UNCHANGED <<streamVars, envToken, providers, clock>>

\* line 880: the 500 ms timer has fired
DestroyDelayReturn(c) ==
  /\ c \in Calls
  /\ tasks[c].kind = "destroy"
  /\ tasks[c].pc = "delay"
  /\ LET t == tasks[c]
         x == Ctx(c, infrastructures[t.target], deploymentOperations[c], t)
     IN  Commit(c, DestroyIteration(x, t.i + 1, clock))
  /\ UNCHANGED <<streamVars, envToken, providers, clock>>

\* -------------------------------------------------------------- look-ups
\* a look-up returns the stored object (here: its id) or null (here: None)
Lookup(store, id) == IF id \in DOMAIN store THEN Some(id) ELSE None

\* a look-up changes no store; the task keeps what it returned
Returned(kind, id, result) ==
  /\ tasks' = Put(tasks, NextCall,
                  [NewTask(kind, "", "", <<>>, FALSE, id)
                     EXCEPT !.pc = "done", !.outcome = "returned", !.result = result])
  /\ UNCHANGED <<streamVars, envToken, providers, infrastructures, deploymentOperations,
                 providerCalls, statusWrites, clock>>

\* getInfrastructure(id): lines 708-710
GetInfrastructure(id) == Returned("getInfrastructure", id, Lookup(infrastructures, id))

\* getDeploymentOperation(id): lines 900-902
GetDeploymentOperation(id) ==
  Returned("getDeploymentOperation", id, Lookup(deploymentOperations, id))

\* ----------------------------------------------------------------- lists
\* Array.from(map.values()): the keys in insertion order.  A key is the number
\* of the call that stored it, so insertion order is ascending order
RECURSIVE Values(_)
Values(store) ==
  IF DOMAIN store = {} THEN <<>>
  ELSE LET m == CHOOSE k \in DOMAIN store : \A j \in DOMAIN store : j <= k
       IN  Append(Values([k \in DOMAIN store \ {m} |-> store[k]]), m)

\* mutant: the oldest first
InsertDescendingAscending(sorted, v, key) ==
  LET before == SelectSeq(sorted, LAMBDA e : key[e] <= key[v])
      after == SelectSeq(sorted, LAMBDA e : key[e] > key[v])
  IN  before \o <<v>> \o after

\* where Array.prototype.sort (stable) with the comparator b - a puts v, which
\* came after all of sorted: behind everything that is not older than it
InsertDescending(sorted, v, key) ==
  LET before == SelectSeq(sorted, LAMBDA e : key[e] >= key[v])
      after == SelectSeq(sorted, LAMBDA e : key[e] < key[v])
  IN  before \o <<v>> \o after

\* .sort((a, b) => b.key - a.key)
RECURSIVE SortDescending(_, _)
SortDescending(s, key) ==
  IF s = <<>> THEN <<>>
  ELSE InsertDescending(SortDescending(SubSeq(s, 1, Len(s) - 1), key), s[Len(s)], key)

\* .filter(infra => infra.workspace_id === workspaceId)
InWorkspace(store, workspaceId) ==
  SelectSeq(Values(store), LAMBDA i : store[i].workspace_id = workspaceId)

\* .filter(op => op.infrastructure_id === infrastructureId)
OfInfrastructure(store, infrastructureId) ==
  SelectSeq(Values(store), LAMBDA o : store[o].infrastructure_id = infrastructureId)

\* listInfrastructure(workspaceId): lines 715-719
ListInfrastructure(workspaceId) ==
  Returned("listInfrastructure", workspaceId,
           SortDescending(InWorkspace(infrastructures, workspaceId),
                          [i \in DOMAIN infrastructures |-> infrastructures[i].created_at]))

\* listDeploymentOperations(infrastructureId): lines 907-911
ListDeploymentOperations(infrastructureId) ==
  Returned("listDeploymentOperations", infrastructureId,
           SortDescending(OfInfrastructure(deploymentOperations, infrastructureId),
                          [o \in DOMAIN deploymentOperations |->
                             deploymentOperations[o].started_at]))

\* ------------------------------------------------------------------- Next
Targets == DOMAIN infrastructures \cup {UnknownId}
OperationTargets == DOMAIN deploymentOperations \cup {UnknownId}

\* the runs that follow one Infrastructure take a create while none is stored
\* and none is under way; updates and destroys start at any time
NoneCreated ==
  /\ \A d \in Calls : tasks[d].kind = "create" => tasks[d].pc = "done"
  /\ DOMAIN infrastructures = {}

\* a run makes at most MaxCalls service calls
Next ==
  \/ /\ NextCall <= MaxCalls
     /\ NoneCreated
     /\ \E in \in CreateInputs :
          CreateInfrastructure(in.userId, in.workspaceId, in.request, in.jwtToken)
  \/ \E c \in Calls, o \in CredentialOutcomes : CredentialsReturn(c, o)
  \/ \E c \in Calls, ok \in BOOLEAN : CreateResourceReturn(c, ok)
  \/ \E c \in Calls : CreateDelayReturn(c)
  \/ \E c \in Calls, ok \in BOOLEAN : CleanupDeleteReturn(c, ok)
  \/ /\ NextCall <= MaxCalls
     /\ \E id \in Targets :
          \E r \in IF id \in DOMAIN infrastructures
                      THEN UpdateRequests(infrastructures[id])
                      ELSE {UpdateRequest(None, None, None, None)} :
            UpdateInfrastructure(id, r)
  \/ /\ NextCall <= MaxCalls
     /\ \E id \in Targets : DestroyInfrastructure(id)
  \/ \E c \in Calls, ok \in BOOLEAN : DestroyDeleteReturn(c, ok)
  \/ \E c \in Calls : DestroyDelayReturn(c)
  \/ /\ NextCall <= MaxCalls
     /\ \E id \in Targets : GetInfrastructure(id)
  \/ /\ NextCall <= MaxCalls
     /\ \E id \in OperationTargets : GetDeploymentOperation(id)

Spec == Init /\ [][Next]_vars

\* ------------------------------------------------- one infrastructure's life
\* Longer runs on one Infrastructure: one more service call, made by one user
\* without a jwtToken, with the shorter resource lists and the two updates of
\* tags and configuration.  The interleaving of the handlers is as in Next.
LifeCreateRequests ==
  {r \in CreateRequests :
     /\ r.provider = "digitalocean"
     /\ Len(r.resources) <= MaxLifeReq
     /\ r.resources # <<>> => r.resources[1].type = "droplet"}

LifeUpdateRequests ==
  { UpdateRequest(None, Some([env |-> "prod"]), Some([backup |-> "on"]), None),
    UpdateRequest(Some("renamed"), Some([team |-> "y"]), None, Some(<<>>)) }

NextLife ==
  \/ /\ NextCall <= MaxLifeCalls
     /\ NoneCreated
     /\ \E r \in LifeCreateRequests : CreateInfrastructure("u1", "w1", r, FALSE)
  \/ \E c \in Calls, ok \in BOOLEAN : CreateResourceReturn(c, ok)
  \/ \E c \in Calls : CreateDelayReturn(c)
  \/ \E c \in Calls, ok \in BOOLEAN : CleanupDeleteReturn(c, ok)
  \/ /\ NextCall <= MaxLifeCalls
     /\ \E id \in DOMAIN infrastructures, r \in LifeUpdateRequests :
          UpdateInfrastructure(id, r)
  \/ /\ NextCall <= MaxLifeCalls
     /\ \E id \in DOMAIN infrastructures : DestroyInfrastructure(id)
  \/ \E c \in Calls, ok \in BOOLEAN : DestroyDeleteReturn(c, ok)
  \/ \E c \in Calls : DestroyDelayReturn(c)

SpecLife == Init /\ [][NextLife]_vars

\* ------------------------------------------------- the detached variant
\* The service whose create returns while the deployment runs on; its update,
\* destroy, deployment and rollback are the same code.
NextDetached ==
  \/ /\ NextCall <= MaxCalls
     /\ NoneCreated
     /\ \E r \in CreateRequests : CreateInfrastructureDetached("u1", "w1", r)
  \/ \E c \in Calls, ok \in BOOLEAN : CreateResourceReturn(c, ok)
  \/ \E c \in Calls : CreateDelayReturn(c)
  \/ \E c \in Calls, ok \in BOOLEAN : CleanupDeleteReturn(c, ok)
  \/ /\ NextCall <= MaxCalls
     /\ \E id \in DOMAIN infrastructures : \E r \in UpdateRequests(infrastructures[id]) :
          UpdateInfrastructure(id, r)
  \/ /\ NextCall <= MaxCalls
     /\ \E id \in DOMAIN infrastructures : DestroyInfrastructure(id)
  \/ \E c \in Calls, ok \in BOOLEAN : DestroyDeleteReturn(c, ok)
  \/ \E c \in Calls : DestroyDelayReturn(c)

SpecDetached == Init /\ [][NextDetached]_vars

\* ------------------------------------------------- several infrastructures
\* Runs in which one user creates Infrastructures in two workspaces, with no
\* jwtToken and at most one resource; creates, updates and destroys on
\* the same and on different Infrastructures interleave, and the lists are read
\* at any time.  A create of one resource that fails has created nothing, so
\* its rollback has no provider call to await.
PairWorkspaces == {"w1", "w2"}

\* the create calls tried: in the first workspace with no resource and with a
\* droplet, in the second with no resource
PairCreateInputs ==
  {in \in [workspaceId : PairWorkspaces,
           request : {r \in CreateRequests : r.provider = "digitalocean"}] :
     /\ in.request.resources \in {<<>>, <<RequestAt(1)>>}
     /\ in.request.resources # <<>> => in.workspaceId = "w1"}

PairUpdateRequests(inf) ==
  { UpdateRequest(Some("renamed"), Some([team |-> "y"]), None,
                  Some(<<ResourcePatch(LastTarget(inf), TRUE)>>)) }

NextPair ==
  \/ /\ NextCall <= MaxPairCalls
     /\ \E in \in PairCreateInputs :
          CreateInfrastructure("u1", in.workspaceId, in.request, FALSE)
  \/ \E c \in Calls, ok \in BOOLEAN : CreateResourceReturn(c, ok)
  \/ \E c \in Calls : CreateDelayReturn(c)
  \/ /\ NextCall <= MaxPairCalls
     /\ \E id \in DOMAIN infrastructures : \E r \in PairUpdateRequests(infrastructures[id]) :
          UpdateInfrastructure(id, r)
  \/ /\ NextCall <= MaxPairCalls
     /\ \E id \in DOMAIN infrastructures : DestroyInfrastructure(id)
  \/ \E c \in Calls, ok \in BOOLEAN : DestroyDeleteReturn(c, ok)
  \/ \E c \in Calls : DestroyDelayReturn(c)
  \/ /\ NextCall <= MaxPairCalls
     /\ \E w \in PairWorkspaces : ListInfrastructure(w)
  \/ /\ NextCall <= MaxPairCalls
     /\ \E id \in Targets : ListDeploymentOperations(id)

SpecPair == Init /\ [][NextPair]_vars

\* ------------------------------------------------------- the MCP server
\* The destroy_infrastructure tool in front of the service: Infrastructures are
\* created as in SpecLife and destroyed through the tool only.
NextTool ==
  \/ /\ NextCall <= MaxLifeCalls
     /\ NoneCreated
     /\ \E r \in LifeCreateRequests : CreateInfrastructure("u1", "w1", r, FALSE)
  \/ \E c \in Calls, ok \in BOOLEAN : CreateResourceReturn(c, ok)
  \/ \E c \in Calls : CreateDelayReturn(c)
  \/ \E c \in Calls, ok \in BOOLEAN : CleanupDeleteReturn(c, ok)
  \/ /\ NextCall <= MaxLifeCalls
     /\ \E id \in Targets, confirm \in ToolConfirms : DestroyInfrastructureTool(id, confirm)
  \/ \E c \in Calls, ok \in BOOLEAN : DestroyDeleteReturn(c, ok)
  \/ \E c \in Calls : DestroyDelayReturn(c)

SpecTool == Init /\ [][NextTool]_vars

\* ------------------------------------------------- ErrorStreamingService
\* An event is the number of the streamError call that brought it.
Min(a, b) == IF a <= b THEN a ELSE b
Max(a, b) == IF a >= b THEN a ELSE b

\* addToBuffer: lines 2709-2715
AddToBuffer(buffer, event) ==
  LET pushed == Append(buffer, event)
  IN  IF Len(pushed) > maxBufferSize THEN Tail(pushed) ELSE pushed

\* mutant: the first failed POST is the last
AfterFailedPostGivesUp(st) ==
  [st EXCEPT !.attempts = st.attempts + 1, !.pc = "done", !.sent = Some(FALSE),
             !.outcome = "returned"]

\* lines 2534-2545: attempts++; after the last attempt the error is thrown, and
\* streamError's catch (lines 2475-2481) logs it and returns; otherwise the
\* retry timer is set
AfterFailedPost(st) ==
  LET attempts == st.attempts + 1
  IN  IF attempts = retryAttempts
        THEN [st EXCEPT !.attempts = attempts, !.pc = "done", !.sent = Some(FALSE),
                        !.outcome = "returned"]
        ELSE [st EXCEPT !.attempts = attempts, !.pc = "delay"]

\* lines 2516-2532: the POST has succeeded, sendToWatson returns and streamError
\* with it
AfterPost(st) == [st EXCEPT !.pc = "done", !.sent = Some(TRUE), !.outcome = "returned"]

\* streamError(event), lines 2464-2482, up to the first POST of sendToWatson
\* (lines 2506-2518)
StreamError ==
  /\ LET e == Len(streams) + 1
     IN  /\ streamBuffer' = AddToBuffer(streamBuffer, e)
         /\ emitted' = Append(emitted, e)
         /\ streams' = Append(streams, [pc |-> "post", attempts |-> 0,
                                        posts |-> <<[result |-> "pending"]>>, sent |-> None,
                                        outcome |-> "pending"])
  /\ returned' = None
  /\ UNCHANGED serviceVars

\* axios.post has resolved or rejected
PostReturn(e, ok) ==
  /\ e \in DOMAIN streams
  /\ streams[e].pc = "post"
  /\ LET st == [streams[e] EXCEPT !.posts = SetResult(@, IF ok THEN "ok" ELSE "failed")]
     IN  streams' = [streams EXCEPT ![e] = IF ok THEN AfterPost(st) ELSE AfterFailedPost(st)]
  /\ UNCHANGED <<serviceVars, streamBuffer, emitted, returned>>

\* line 2545: the retry timer has fired; the loop makes the next attempt
RetryDelayReturn(e) ==
  /\ e \in DOMAIN streams
  /\ streams[e].pc = "delay"
  /\ streams' = [streams EXCEPT ![e] =
                   IF @.attempts < retryAttempts
                     THEN [@ EXCEPT !.pc = "post", !.posts = Append(@, [result |-> "pending"])]
                     ELSE [@ EXCEPT !.pc = "done", !.outcome = "returned"]]
  /\ UNCHANGED <<serviceVars, streamBuffer, emitted, returned>>

\* Array.prototype.slice(start): a negative start counts from the end, and
\* -0 is 0
Slice(s, start) ==
  LET from == IF start < 0 THEN Max(Len(s) + start, 0) ELSE Min(start, Len(s))
  IN  SubSeq(s, from + 1, Len(s))

\* getRecentErrors(limit = 10): lines 2717-2719
GetRecentErrors(limit) ==
  /\ returned' = Some([limit |-> limit, events |-> Slice(streamBuffer, 0 - limit)])
  /\ UNCHANGED <<serviceVars, streamBuffer, emitted, streams>>

\* clearBuffer(): lines 2729-2731
ClearBuffer ==
  /\ streamBuffer' = <<>>
  /\ returned' = None
  /\ UNCHANGED <<serviceVars, emitted, streams>>

\* the limits getRecentErrors is called with: the default, one, none
Limits == {10, 1, 0}

\* a few events streamed at any time, Watson answering or not
NextStream ==
  \/ Len(streams) < MaxStreams /\ StreamError
  \/ \E e \in DOMAIN streams, ok \in BOOLEAN : PostReturn(e, ok)
  \/ \E e \in DOMAIN streams : RetryDelayReturn(e)
  \/ \E limit \in Limits : GetRecentErrors(limit)
  \/ ClearBuffer

SpecStream == Init /\ [][NextStream]_vars

\* more events than the buffer holds, streamed one after the other to a Watson
\* that answers; the limits: the default, none, more than the buffer holds
NextBuffer ==
  \/ /\ Len(streams) < MaxStreamed
     /\ \A e \in DOMAIN streams : streams[e].pc = "done"
     /\ StreamError
  \/ \E e \in DOMAIN streams : PostReturn(e, TRUE)
  \/ \E limit \in {10, 0, maxBufferSize + 1} : GetRecentErrors(limit)
  \/ ClearBuffer

SpecBuffer == Init /\ [][NextBuffer]_vars

\* ------------------------------------------------------------ fair runs
\* what the event loop does for call c when something it awaits has settled: a
\* provider call returns or fails, a timer fires
Resume(c) ==
  \/ \E ok \in BOOLEAN : CreateResourceReturn(c, ok)
  \/ CreateDelayReturn(c)
  \/ \E ok \in BOOLEAN : CleanupDeleteReturn(c, ok)
  \/ \E ok \in BOOLEAN : DestroyDeleteReturn(c, ok)
  \/ DestroyDelayReturn(c)

\* the create requests of the fair runs: no resource, a droplet, a droplet and
\* a volume
FairCreateRequests ==
  {r \in CreateRequests :
     /\ r.provider = "digitalocean"
     /\ r.resources \in {<<>>, <<RequestAt(1)>>, <<RequestAt(1), RequestAt(2)>>}}

NextFair ==
  \/ /\ NextCall <= MaxFairCalls
     /\ NoneCreated
     /\ \E r \in FairCreateRequests : CreateInfrastructure("u1", "w1", r, FALSE)
  \/ \E c \in Calls, ok \in BOOLEAN : CreateResourceReturn(c, ok)
  \/ \E c \in Calls : CreateDelayReturn(c)
  \/ \E c \in Calls, ok \in BOOLEAN : CleanupDeleteReturn(c, ok)
  \/ /\ NextCall <= MaxFairCalls
     /\ \E id \in DOMAIN infrastructures, r \in LifeUpdateRequests :
          UpdateInfrastructure(id, r)
  \/ /\ NextCall <= MaxFairCalls
     /\ \E id \in DOMAIN infrastructures : DestroyInfrastructure(id)
  \/ \E c \in Calls, ok \in BOOLEAN : DestroyDeleteReturn(c, ok)
  \/ \E c \in Calls : DestroyDelayReturn(c)

\* the runs in which every provider call settles, one way or the other, every
\* timer fires, and the handler that waits for it is then run
SpecFair ==
  Init /\ [][NextFair]_vars /\ \A c \in 1..MaxFairCalls : WF_vars(Resume(c))

\* ================================================================= claims
CreateCalls == {c \in Calls : tasks[c].kind = "create"}
IsTerminal(op) == op.status \in {"completed", "failed"}

\* the createResource calls a service call has issued, in order
CreateResourceCalls(c) ==
  IF c \in DOMAIN providerCalls
    THEN SelectSeq(providerCalls[c], LAMBDA e : e.method = "createResource")
    ELSE <<>>

\* the request whose createResource call failed, 0 when none did
FailedRequest(c) ==
  LET cr == CreateResourceCalls(c)
  IN  IF cr # <<>> /\ cr[Len(cr)].result = "failed" THEN cr[Len(cr)].resource ELSE 0

\* C1: when createResource fails for request k (after succeeding for the requests
\* before it), the create ends with the Operation failed, k-1 created_resources,
\* and the Infrastructure still stored with exactly k-1 resources.
C1_RollbackKeepsCreated ==
  \A c \in CreateCalls :
    (tasks[c].pc = "done" /\ FailedRequest(c) > 0) =>
      /\ c \in DOMAIN deploymentOperations
      /\ deploymentOperations[c].status = "failed"
      /\ Len(deploymentOperations[c].created_resources) = FailedRequest(c) - 1
      /\ c \in DOMAIN infrastructures
      /\ Len(infrastructures[c].resources) = FailedRequest(c) - 1

\* a create whose second request failed has ended, after a rollback that deleted
\* the first resource
C1_Witness ==
  \E c \in CreateCalls :
    /\ tasks[c].pc = "done"
    /\ FailedRequest(c) = 2
    /\ Len(deploymentOperations[c].deleted_resources) = 1

\* C2: neither the teardown loop nor the rollback loop ever calls
\* Provider.deleteResource for a resource that has no provider_id.
C2_DeleteNeedsProviderId ==
  \A c \in DOMAIN providerCalls :
    \A k \in 1..Len(providerCalls[c]) :
      providerCalls[c][k].method = "deleteResource" => IsSome(providerCalls[c][k].arg)

\* a teardown has passed a resource without provider_id (marked deleted, no call)
\* and has called deleteResource for one that has a provider_id
C2_Witness ==
  \E c \in DOMAIN providerCalls :
    /\ tasks[c].kind = "destroy"
    /\ \E k \in 1..Len(infrastructures[tasks[c].target].resources) :
         LET r == infrastructures[tasks[c].target].resources[k]
         IN  /\ r.provider_id = None
             /\ r.status = "deleted"
    /\ \E k \in 1..Len(providerCalls[c]) : providerCalls[c][k].method = "deleteResource"

\* C3: completed_steps of every operation never decreases, never exceeds
\* total_steps, and total_steps stays what it was when the operation was opened.
C3_StepsMonotoneBounded ==
  [][ /\ \A o \in DOMAIN deploymentOperations' :
           deploymentOperations'[o].completed_steps <= deploymentOperations'[o].total_steps
      /\ \A o \in DOMAIN deploymentOperations :
           /\ deploymentOperations'[o].completed_steps >= deploymentOperations[o].completed_steps
           /\ deploymentOperations'[o].total_steps = deploymentOperations[o].total_steps
    ]_vars

\* an update with two resource patches has counted all its three steps
C3_Witness ==
  \E o \in DOMAIN deploymentOperations :
    /\ deploymentOperations[o].operation_type = "update"
    /\ deploymentOperations[o].total_steps = 3
    /\ deploymentOperations[o].completed_steps = 3

Last(s) == s[Len(s)]
StatusMoves ==
  {<<"pending", "in_progress">>, <<"in_progress", "completed">>, <<"in_progress", "failed">>}

\* C4: the values assigned to an Operation's status, in order, start at pending
\* and only move pending -> in_progress -> completed or failed; an assignment
\* either keeps the status or makes one of these moves.
C4_StatusOrder ==
  \A o \in DOMAIN deploymentOperations :
    LET w == statusWrites[o]
    IN  /\ w[1] = "pending"
        /\ Last(w) = deploymentOperations[o].status
        /\ \A k \in 1..(Len(w) - 1) : w[k] = w[k + 1] \/ <<w[k], w[k + 1]>> \in StatusMoves

\* a create has been marked failed by deployInfrastructure and again by
\* createInfrastructure, and a destroy has completed
C4_Witness ==
  /\ \E o \in DOMAIN deploymentOperations :
       statusWrites[o] = <<"pending", "in_progress", "failed", "failed">>
  /\ \E o \in DOMAIN deploymentOperations :
       /\ deploymentOperations[o].operation_type = "destroy"
       /\ statusWrites[o] = <<"pending", "in_progress", "completed">>

\* C5: once an Operation is completed or failed, no field of its record changes.
C5_TerminalRecordFrozen ==
  [][ \A o \in DOMAIN deploymentOperations :
        IsTerminal(deploymentOperations[o]) =>
          deploymentOperations'[o] = deploymentOperations[o] ]_vars

\* C6: error_message is set, and not empty, exactly when status = failed.
C6_ErrorMessageIffFailed ==
  \A o \in DOMAIN deploymentOperations :
    /\ IsSome(deploymentOperations[o].error_message)
         <=> deploymentOperations[o].status = "failed"
    /\ \A m \in deploymentOperations[o].error_message : m # <<>>

\* a destroy has failed on a provider delete and a create has failed
C6_Witness ==
  /\ \E o \in DOMAIN deploymentOperations :
       /\ deploymentOperations[o].operation_type = "destroy"
       /\ deploymentOperations[o].status = "failed"
  /\ \E o \in DOMAIN deploymentOperations :
       /\ deploymentOperations[o].operation_type = "create"
       /\ deploymentOperations[o].status = "failed"

\* C7: after a createResource failure, the error_message the Operation carries
\* when createInfrastructure has finished is the message of that failure.
C7_ErrorMessageVerbatim ==
  \A c \in CreateCalls :
    (tasks[c].pc = "done" /\ FailedRequest(c) > 0) =>
      deploymentOperations[c].error_message =
        Some(CreateErrorMessage(tasks[c].request.resources[FailedRequest(c)]))

\* C8: createResource is called at most once per request, in request order, and
\* never after a call that failed.
C8_NoRetryNoContinuation ==
  \A c \in CreateCalls :
    LET cr == CreateResourceCalls(c)
    IN  /\ Len(cr) <= Len(tasks[c].request.resources)
        /\ \A k \in 1..Len(cr) :
             /\ cr[k].resource = k
             /\ k < Len(cr) => cr[k].result = "ok"

\* a create of two resources has ended with one createResource call, which failed
C8_Witness ==
  \E c \in CreateCalls :
    /\ tasks[c].pc = "done"
    /\ Len(tasks[c].request.resources) = 2
    /\ Len(CreateResourceCalls(c)) = 1
    /\ FailedRequest(c) = 1

RaisedWith(c, code) ==
  /\ tasks[c].outcome = "raised"
  /\ \E e \in tasks[c].error : e.code = code

Decides(c) ==
  /\ c \in DOMAIN tasks'
  /\ tasks'[c].kind = "create"
  /\ tasks'[c].pc # "credentials"
  /\ c \in DOMAIN tasks => tasks[c].pc = "credentials"

\* C10: a create whose provider has neither a user-scoped nor a fallback registry
\* entry raises PROVIDER_NOT_CONFIGURED at once: both stores stay as they were, no
\* provider call is made, no rollback runs, and the credential resolver was asked
\* at most once; with an entry bound the create gets past the check.
C10_NotConfiguredTouchesNothing ==
  [][ \A c \in DOMAIN tasks' :
        Decides(c) =>
          LET t == tasks'[c]
              bound == \/ UserKey(t.request.provider, t.userId) \in DOMAIN providers'
                       \/ BareKey(t.request.provider) \in DOMAIN providers'
          IN  IF bound
                THEN c \in DOMAIN infrastructures' /\ c \in DOMAIN deploymentOperations'
                ELSE /\ t.pc = "done"
                     /\ t.outcome = "raised"
                     /\ \E e \in t.error : e.code = "PROVIDER_NOT_CONFIGURED"
                     /\ infrastructures' = infrastructures
                     /\ deploymentOperations' = deploymentOperations
                     /\ providerCalls' = providerCalls
                     /\ statusWrites' = statusWrites
                     /\ t.resolverCalls = (IF t.jwtToken THEN 1 ELSE 0)
    ]_vars

\* a create with a jwtToken has raised PROVIDER_NOT_CONFIGURED after the
\* credential resolver returned no credentials
C10_Witness ==
  \E c \in CreateCalls :
    /\ RaisedWith(c, "PROVIDER_NOT_CONFIGURED")
    /\ tasks[c].jwtToken
    /\ tasks[c].resolverCalls = 1
    /\ tasks[c].request.provider = "digitalocean"

\* the provider call service call c issues in this step, if any
IssuedCall(c) ==
  IF /\ c \in DOMAIN providerCalls'
     /\ Len(providerCalls'[c]) > (IF c \in DOMAIN providerCalls THEN Len(providerCalls[c]) ELSE 0)
    THEN Some(Last(providerCalls'[c]))
    ELSE None

\* C11: every createResource call of a create, and every deleteResource call of
\* its rollback, is executed by the calling user's own registry entry when one
\* is bound, and by the bare provider-name entry only when none is.
C11_UserProviderExecutes ==
  [][ \A c \in DOMAIN tasks' :
        tasks'[c].kind = "create" =>
          \A e \in IssuedCall(c) :
            e.by = ResolveProvider(providers', tasks'[c].request, tasks'[c].userId) ]_vars

\* the user whose credentials arrive in this step (initializeUserProviders resumes)
BindsFor(u) ==
  \E c \in Calls :
    /\ tasks[c].pc = "credentials"
    /\ tasks'[c].pc # "credentials"
    /\ tasks[c].userId = u

\* C12: binding a user's provider removes no registry entry and leaves the
\* fallback entry and every other user's entry bound to the object it had.
C12_BindingKeepsOtherEntries ==
  [][ \A k \in DOMAIN providers :
        /\ k \in DOMAIN providers'
        /\ providers'[k] # providers[k] =>
             \E u \in Users : BindsFor(u) /\ k = UserKey("digitalocean", u) ]_vars

\* the fallback entry and the entries of two users are bound, the fallback still
\* the object the constructor made
C12_Witness ==
  /\ BareKey("digitalocean") \in DOMAIN providers
  /\ providers[BareKey("digitalocean")].obj = 0
  /\ \A u \in Users : UserKey("digitalocean", u) \in DOMAIN providers
  /\ Cardinality(Users) >= 2

DestroyCalls == {c \in Calls : tasks[c].kind = "destroy" /\ c \in DOMAIN deploymentOperations}
IsPrefix(a, b) == Len(a) <= Len(b) /\ \A k \in 1..Len(a) : a[k] = b[k]

\* the resources an Infrastructure had when destroy c was opened, newest first:
\* the list only grows at its end, and total_steps is its length at that moment
OpenedOn(c) ==
  LET rs == infrastructures[tasks[c].target].resources
      n == deploymentOperations[c].total_steps
  IN  [k \in 1..n |-> rs[n + 1 - k]]

\* the ids of the resources the deleteResource calls of service call c were for
DeleteCalls(c) ==
  LET dc == SelectSeq(providerCalls[c], LAMBDA e : e.method = "deleteResource")
  IN  [k \in 1..Len(dc) |-> dc[k].resource]

\* C13: a destroy calls deleteResource for the resources that have a
\* provider_id in the reverse of their creation order, and fills
\* deleted_resources in that same reverse order.
C13_DestroyReverseOrder ==
  \A c \in DestroyCalls :
    LET expected == OpenedOn(c)
        withId == SelectSeq(expected, LAMBDA r : IsSome(r.provider_id))
    IN  /\ IsPrefix(DeleteCalls(c), [k \in 1..Len(withId) |-> withId[k].id])
        /\ IsPrefix(deploymentOperations[c].deleted_resources,
                    [k \in 1..Len(expected) |-> expected[k].id])

\* a destroy of three resources has completed after two deleteResource calls
C13_Witness ==
  \E c \in DestroyCalls :
    /\ deploymentOperations[c].status = "completed"
    /\ Len(DeleteCalls(c)) = 2
    /\ Len(deploymentOperations[c].deleted_resources) = 3

\* service call c, a destroy that found its Infrastructure, ends in this step
DestroyEnds(c) ==
  /\ c \in DOMAIN deploymentOperations'
  /\ tasks'[c].kind = "destroy"
  /\ tasks'[c].pc = "done"
  /\ c \in DOMAIN tasks => tasks[c].pc # "done"

\* C14: when a destroy of an Infrastructure of n resources ends and none of its
\* deleteResource calls failed, the Operation is completed with completed_steps
\* = n and n deleted_resources, each of the n resources is marked deleted (with
\* or without a provider_id), and the Infrastructure is destroyed with
\* destroyed_at set.
C14_DestroyAllSucceed ==
  [][ \A c \in DOMAIN tasks' :
        (/\ DestroyEnds(c)
         /\ \A k \in 1..Len(providerCalls'[c]) : providerCalls'[c][k].result = "ok") =>
          LET op == deploymentOperations'[c]
              inf == infrastructures'[tasks'[c].target]
              n == op.total_steps
          IN  /\ op.status = "completed"
              /\ op.completed_steps = n
              /\ Len(op.deleted_resources) = n
              /\ \A k \in 1..n : inf.resources[k].status = "deleted"
              /\ inf.status = "destroyed"
              /\ IsSome(inf.destroyed_at) ]_vars

\* a destroy of three resources, one of them without provider_id, has completed
C14_Witness ==
  \E c \in DestroyCalls :
    /\ tasks[c].pc = "done"
    /\ deploymentOperations[c].status = "completed"
    /\ deploymentOperations[c].total_steps = 3
    /\ \E k \in 1..3 :
         LET r == infrastructures[tasks[c].target].resources[k]
         IN  r.provider_id = None /\ r.status = "deleted"
    /\ infrastructures[tasks[c].target].status = "destroyed"

HasFailedCall(log) == \E k \in 1..Len(log) : log[k].result = "failed"
Statuses(inf) == [k \in 1..Len(inf.resources) |-> inf.resources[k].status]

\* C15: in the step in which a deleteResource call of a destroy fails, the
\* Operation becomes failed and the Infrastructure error, while deleted_resources
\* and the status of every resource stay as they were (what was deleted stays
\* deleted, the failing resource and those not reached keep their status); after
\* a failed call the destroy makes no further provider call.
C15_DestroyAbortsOnFailure ==
  [][ \A c \in DestroyCalls :
        LET inf == infrastructures[tasks[c].target]
            inf2 == infrastructures'[tasks[c].target]
        IN  /\ (tasks[c].pc = "deleteResource" /\ HasFailedCall(providerCalls'[c])) =>
                 /\ deploymentOperations'[c].status = "failed"
                 /\ inf2.status = "error"
                 /\ tasks'[c].pc = "done"
                 /\ deploymentOperations'[c].deleted_resources =
                      deploymentOperations[c].deleted_resources
                 /\ Statuses(inf2) = Statuses(inf)
            /\ HasFailedCall(providerCalls[c]) =>
                 /\ providerCalls'[c] = providerCalls[c]
                 /\ deploymentOperations'[c] = deploymentOperations[c] ]_vars

\* a destroy has failed on its second deleteResource call, with one resource
\* deleted before it and the failing resource still as it was
C15_Witness ==
  \E c \in DestroyCalls :
    /\ deploymentOperations[c].status = "failed"
    /\ Len(DeleteCalls(c)) = 2
    /\ Len(deploymentOperations[c].deleted_resources) >= 1
    /\ \E k \in 1..Len(infrastructures[tasks[c].target].resources) :
         infrastructures[tasks[c].target].resources[k].status = "creating"

\* the rollback calls of create c, and the resources create c made that have a
\* provider_id, in creation order
CleanupCalls(c) == SelectSeq(providerCalls[c], LAMBDA e : e.from = "cleanup")
Ids(s) == [k \in 1..Len(s) |-> s[k].id]
CreatedWithId(c) ==
  Ids(SelectSeq(infrastructures[c].resources,
                LAMBDA r : /\ IsSome(r.provider_id)
                           /\ \E k \in 1..Len(deploymentOperations[c].created_resources) :
                                deploymentOperations[c].created_resources[k] = r.id))
GenericFailure == <<"Deployment failed with status:", "failed">>

C16_State ==
  \A c \in CreateCalls :
    FailedRequest(c) > 0 =>
      LET op == deploymentOperations[c]
          cl == CleanupCalls(c)
          okCalls == SelectSeq(cl, LAMBDA e : e.result = "ok")
      IN  /\ op.status = "failed"
          /\ op.deleted_resources = [k \in 1..Len(okCalls) |-> okCalls[k].resource]
          /\ \A k \in 1..Len(okCalls) :
               infrastructures[c].resources[
                 FindResource(infrastructures[c].resources, okCalls[k].resource)].status
                 = "deleted"
          /\ tasks[c].pc = "cleanup" =>
               op.error_message =
                 Some(CreateErrorMessage(tasks[c].request.resources[FailedRequest(c)]))
          /\ tasks[c].pc = "done" =>
               /\ {cl[k].resource : k \in 1..Len(cl)} =
                    {CreatedWithId(c)[k] : k \in 1..Len(CreatedWithId(c))}
               /\ Len(cl) = Len(CreatedWithId(c))
               /\ op.error_message = Some(GenericFailure)
               /\ \A e \in tasks[c].error : e.message = GenericFailure

C16_Step ==
  \A c \in CreateCalls :
    (tasks[c].pc = "cleanup" /\ Last(providerCalls'[c]).result = "failed"
       /\ Len(providerCalls'[c]) = Len(providerCalls[c])) =>
      /\ Statuses(infrastructures'[c]) = Statuses(infrastructures[c])
      /\ deploymentOperations'[c].deleted_resources = deploymentOperations[c].deleted_resources
      /\ deploymentOperations'[c].status = "failed"
      /\ tasks'[c].pc = "done" /\ deploymentOperations'[c].error_message = Some(GenericFailure)

\* C16: the rollback of a failed create calls deleteResource for every created
\* resource that has a provider_id, whatever the earlier deletes did; exactly the
\* resources whose delete succeeded are marked deleted and listed in
\* deleted_resources; a failed delete changes no resource, leaves the Operation
\* failed, and is neither the Operation's error_message nor the error raised.
C16_RollbackBestEffort == []C16_State /\ [][C16_Step]_vars

\* a create whose third request failed has ended: the rollback's first delete
\* failed, its second succeeded
C16_Witness ==
  \E c \in CreateCalls :
    /\ tasks[c].pc = "done"
    /\ FailedRequest(c) = 3
    /\ Len(CleanupCalls(c)) = 2
    /\ CleanupCalls(c)[1].result = "failed"
    /\ CleanupCalls(c)[2].result = "ok"
    /\ Len(deploymentOperations[c].deleted_resources) = 1

\* C17: the rollback calls deleteResource in creation order, oldest first.
C17_RollbackForwardOrder ==
  \A c \in CreateCalls :
    c \in DOMAIN providerCalls =>
      LET cl == CleanupCalls(c)
      IN  IsPrefix([k \in 1..Len(cl) |-> cl[k].resource], CreatedWithId(c))

\* a rollback has called deleteResource for two resources
C17_Witness ==
  \E c \in CreateCalls :
    /\ c \in DOMAIN providerCalls
    /\ Len(CleanupCalls(c)) = 2
    /\ CleanupCalls(c)[1].resource < CleanupCalls(c)[2].resource

\* the sum of monthly_cost over the resources of a list that are not deleted
RECURSIVE LiveCost(_)
LiveCost(rs) ==
  IF rs = <<>> THEN 0
  ELSE (IF Head(rs).status = "deleted" THEN 0 ELSE Head(rs).monthly_cost) + LiveCost(Tail(rs))

\* C18: while an Infrastructure is active or provisioning, its
\* estimated_monthly_cost is the sum of monthly_cost over its resources that
\* are not deleted.
C18_CostIsLiveSum ==
  \A i \in DOMAIN infrastructures :
    infrastructures[i].status \in {"active", "provisioning"} =>
      infrastructures[i].estimated_monthly_cost = LiveCost(infrastructures[i].resources)

\* C19: an Infrastructure that is destroyed keeps that status whatever runs
\* afterwards.
C19_DestroyedIsFinal ==
  [][ \A i \in DOMAIN infrastructures :
        infrastructures[i].status = "destroyed" =>
          infrastructures'[i].status = "destroyed" ]_vars

\* the status changes a step may show: a handler passes through several of the
\* lifecycle's edges before it awaits (an update through updating, a create of
\* no resources through provisioning)
LifecycleEdges ==
  {<<"pending", "provisioning">>, <<"provisioning", "active">>, <<"provisioning", "error">>,
   <<"active", "updating">>, <<"updating", "active">>, <<"updating", "error">>,
   <<"active", "destroying">>, <<"destroying", "destroyed">>, <<"destroying", "error">>}
LifecycleSteps ==
  LifecycleEdges
  \cup {<<"pending", "active">>, <<"pending", "error">>, <<"active", "active">>,
        <<"active", "error">>, <<"active", "destroyed">>}

\* the update and destroy operations opened in this step
OpenedOps ==
  {o \in DOMAIN deploymentOperations' \ DOMAIN deploymentOperations :
     deploymentOperations'[o].operation_type \in {"update", "destroy"}}

\* C20: an Infrastructure's status moves only along pending -> provisioning ->
\* active or error, active -> updating -> active or error, active -> destroying
\* -> destroyed or error; an update or a destroy is opened only on an active
\* Infrastructure.
C20_LifecycleEdges ==
  [][ /\ \A i \in DOMAIN infrastructures' :
           LET from == IF i \in DOMAIN infrastructures
                         THEN infrastructures[i].status ELSE "pending"
           IN  \/ infrastructures'[i].status = from
               \/ <<from, infrastructures'[i].status>> \in LifecycleSteps
      /\ \A o \in OpenedOps :
           infrastructures[deploymentOperations'[o].infrastructure_id].status = "active"
    ]_vars

\* C21: once deployed_at is set it is never written again, and once
\* destroyed_at is set it is never written again.
C21_TimestampsWrittenOnce ==
  [][ \A i \in DOMAIN infrastructures :
        /\ IsSome(infrastructures[i].deployed_at) =>
             infrastructures'[i].deployed_at = infrastructures[i].deployed_at
        /\ IsSome(infrastructures[i].destroyed_at) =>
             infrastructures'[i].destroyed_at = infrastructures[i].destroyed_at ]_vars

\* a createResource call of a create on Infrastructure i succeeds in this step
CreateSucceedsOn(i) ==
  \E c \in Calls :
    /\ tasks[c].kind = "create"
    /\ tasks[c].target = i
    /\ tasks[c].pc = "createResource"
    /\ Last(providerCalls'[c]).result = "ok"

\* C22: the resource list of an Infrastructure keeps its elements and their
\* order; it grows, by one element at its end, only in a step in which a
\* createResource call of its create succeeds; update, destroy and rollback
\* leave its length and order alone.
C22_ResourceListOnlyGrows ==
  [][ \A i \in DOMAIN infrastructures :
        LET old == Ids(infrastructures[i].resources)
            new == Ids(infrastructures'[i].resources)
        IN  /\ IsPrefix(old, new)
            /\ new # old => (Len(new) = Len(old) + 1 /\ CreateSucceedsOn(i)) ]_vars

\* an Infrastructure of three resources has been destroyed: all three are still
\* in its list, marked deleted
C22_Witness ==
  \E i \in DOMAIN infrastructures :
    /\ infrastructures[i].status = "destroyed"
    /\ Len(infrastructures[i].resources) = 3
    /\ \A k \in 1..3 : infrastructures[i].resources[k].status = "deleted"

Elems(s) == {s[k] : k \in 1..Len(s)}

\* C23 as claimed: no resource id is in more than one of created_resources,
\* updated_resources and deleted_resources of an Operation.
C23_ListsDisjoint ==
  \A o \in DOMAIN deploymentOperations :
    LET op == deploymentOperations[o]
    IN  /\ Elems(op.created_resources) \cap Elems(op.updated_resources) = {}
        /\ Elems(op.created_resources) \cap Elems(op.deleted_resources) = {}
        /\ Elems(op.updated_resources) \cap Elems(op.deleted_resources) = {}

\* C23 as amended: updated_resources shares no id with the other two lists; an
\* id is in both created_resources and deleted_resources only in a failed create
\* Operation, whose deleted_resources are the created resources its rollback
\* deleted; an update fills only updated_resources and a destroy only
\* deleted_resources.
C23_ListsDisjointButRollback ==
  \A o \in DOMAIN deploymentOperations :
    LET op == deploymentOperations[o]
    IN  /\ Elems(op.created_resources) \cap Elems(op.updated_resources) = {}
        /\ Elems(op.updated_resources) \cap Elems(op.deleted_resources) = {}
        /\ op.operation_type = "create" =>
             /\ op.updated_resources = <<>>
             /\ Elems(op.deleted_resources) \subseteq Elems(op.created_resources)
             /\ op.deleted_resources # <<>> => op.status = "failed"
        /\ op.operation_type = "update" =>
             op.created_resources = <<>> /\ op.deleted_resources = <<>>
        /\ op.operation_type = "destroy" =>
             op.created_resources = <<>> /\ op.updated_resources = <<>>

\* a failed create lists a resource as created and, rolled back, as deleted;
\* an update lists a resource as updated
C23_Witness ==
  /\ \E o \in DOMAIN deploymentOperations :
       /\ deploymentOperations[o].operation_type = "create"
       /\ deploymentOperations[o].status = "failed"
       /\ Elems(deploymentOperations[o].created_resources)
            \cap Elems(deploymentOperations[o].deleted_resources) # {}
  /\ \E o \in DOMAIN deploymentOperations :
       deploymentOperations[o].updated_resources # <<>>

\* the sum of monthly_cost over a resource list
RECURSIVE TotalCost(_)
TotalCost(rs) == IF rs = <<>> THEN 0 ELSE Head(rs).monthly_cost + TotalCost(Tail(rs))

\* Operation o is stored completed after this step and was not before it
CompletesNow(o) ==
  /\ deploymentOperations'[o].status = "completed"
  /\ o \in DOMAIN deploymentOperations => deploymentOperations[o].status # "completed"

\* C24: when a create completes, its cost_change is the Infrastructure's
\* estimated_monthly_cost, which is the sum of the monthly costs of the resources
\* created, and neither changes afterwards; when a destroy is opened, its
\* cost_change is the negative of the estimate the Infrastructure has at that
\* moment, and it stays that.
C24_CostChange ==
  [][ \A o \in DOMAIN deploymentOperations' :
        LET op == deploymentOperations'[o]
            inf == infrastructures'[op.infrastructure_id]
        IN  /\ (op.operation_type = "create" /\ op.status = "completed") =>
                 /\ op.cost_change = inf.estimated_monthly_cost
                 /\ op.cost_change = TotalCost(inf.resources)
                 /\ CompletesNow(o) \/ op.cost_change = deploymentOperations[o].cost_change
            /\ op.operation_type = "destroy" =>
                 IF o \in DOMAIN deploymentOperations
                   THEN op.cost_change = deploymentOperations[o].cost_change
                   ELSE op.cost_change =
                          0 - infrastructures[op.infrastructure_id].estimated_monthly_cost
    ]_vars

\* a create of two resources has completed and a destroy was opened on its
\* Infrastructure when it had a cost
C24_Witness ==
  /\ \E o \in DOMAIN deploymentOperations :
       /\ deploymentOperations[o].operation_type = "create"
       /\ deploymentOperations[o].status = "completed"
       /\ Len(deploymentOperations[o].created_resources) = 2
       /\ deploymentOperations[o].cost_change > 0
  /\ \E o \in DOMAIN deploymentOperations :
       /\ deploymentOperations[o].operation_type = "destroy"
       /\ deploymentOperations[o].cost_change < 0

\* Operation o is stored failed after this step and was not before it
FailsNow(o) ==
  /\ deploymentOperations'[o].status = "failed"
  /\ o \in DOMAIN deploymentOperations => deploymentOperations[o].status # "failed"

\* C25: in the step in which an Operation becomes failed, its error_message is
\* set and not empty and its Infrastructure has status error.
C25_FailedMeansError ==
  [][ \A o \in DOMAIN deploymentOperations' :
        FailsNow(o) =>
          /\ IsSome(deploymentOperations'[o].error_message)
          /\ \A m \in deploymentOperations'[o].error_message : m # <<>>
          /\ infrastructures'[deploymentOperations'[o].infrastructure_id].status = "error"
    ]_vars

\* a destroy has failed on a provider delete: its Operation carries the
\* provider's message and its Infrastructure is in error
C25_Witness ==
  \E o \in DOMAIN deploymentOperations :
    /\ deploymentOperations[o].operation_type = "destroy"
    /\ deploymentOperations[o].status = "failed"
    /\ \E m \in deploymentOperations[o].error_message : m[1] = "Failed to delete resource"
    /\ infrastructures[deploymentOperations[o].infrastructure_id].status = "error"

\* an Infrastructure record without the fields an update may write
UpdateFrame(inf) ==
  [inf EXCEPT !.name = "", !.tags = <<>>, !.configuration = <<>>,
              !.status = "", !.updated_at = 0,
              !.resources = [k \in 1..Len(inf.resources) |->
                               [inf.resources[k] EXCEPT !.specifications = <<>>,
                                                        !.updated_at = 0]]]

\* the update operations opened in this step
OpenedUpdates ==
  {o \in DOMAIN deploymentOperations' \ DOMAIN deploymentOperations :
     deploymentOperations'[o].operation_type = "update"}

IsShallowMerge(new, old, patch) ==
  IF patch = None THEN new = old
  ELSE LET P == The(patch)
       IN  /\ DOMAIN new = (DOMAIN old) \cup (DOMAIN P)
           /\ \A k \in DOMAIN P : new[k] = P[k]
           /\ \A k \in (DOMAIN old) \ (DOMAIN P) : new[k] = old[k]
           /\ (\A k \in DOMAIN P : k \in DOMAIN old /\ old[k] = P[k]) => new = old

\* C27: an update leaves the tags, and the configuration, as the shallow merge
\* of what they were with the request's patch: the patch's value for each of its
\* keys, the old value for every other old key, no further key; a patch whose
\* keys already have its values (the same patch applied before) changes nothing.
C27_ShallowMerge ==
  [][ \A o \in OpenedUpdates :
        LET i == deploymentOperations'[o].infrastructure_id
            request == tasks'[o].request
        IN  /\ IsShallowMerge(infrastructures'[i].tags, infrastructures[i].tags, request.tags)
            /\ IsShallowMerge(infrastructures'[i].configuration,
                              infrastructures[i].configuration, request.configuration)
    ]_vars

\* the same tag patch has been applied twice to an Infrastructure
C27_Witness ==
  \E a, b \in DOMAIN deploymentOperations :
    /\ a # b
    /\ deploymentOperations[a].operation_type = "update"
    /\ deploymentOperations[b].operation_type = "update"
    /\ tasks[a].request = tasks[b].request
    /\ tasks[a].request.tags = Some([env |-> "prod"])
    /\ \E i \in DOMAIN infrastructures :
         infrastructures[i].tags = [team |-> "x", env |-> "prod"]

\* C28: a create whose request has no resources stores an Operation with
\* total_steps = 0 that is completed at once, without any provider call, and an
\* active Infrastructure; its resource list stays empty and its estimated cost 0.
C28_EmptyCreateCompletes ==
  [][ \A c \in DOMAIN deploymentOperations' :
        (tasks'[c].kind = "create" /\ tasks'[c].request.resources = <<>>) =>
          /\ deploymentOperations'[c].total_steps = 0
          /\ deploymentOperations'[c].completed_steps = 0
          /\ deploymentOperations'[c].status = "completed"
          /\ providerCalls'[c] = <<>>
          /\ infrastructures'[c].resources = <<>>
          /\ infrastructures'[c].estimated_monthly_cost = 0
          /\ c \notin DOMAIN deploymentOperations =>
               /\ infrastructures'[c].status = "active"
               /\ tasks'[c].outcome = "returned" ]_vars

\* a create without resources has completed on the user's own provider entry
\* alone, deployInfrastructure having no provider to call
C28_Witness ==
  \E c \in CreateCalls :
    /\ c \in DOMAIN deploymentOperations
    /\ tasks[c].request.resources = <<>>
    /\ deploymentOperations[c].status = "completed"
    /\ infrastructures[c].status = "active"
    /\ tasks[c].provider = None

\* the service calls made in this step
NewCalls == DOMAIN tasks' \ DOMAIN tasks
StoresUnchanged ==
  /\ infrastructures' = infrastructures
  /\ deploymentOperations' = deploymentOperations
  /\ providerCalls' = providerCalls
  /\ providers' = providers

\* C29: an update or a destroy of an id that is not stored raises
\* RESOURCE_NOT_FOUND (not a provider error), opens no Operation, makes no
\* provider call and changes no stored record, while one of a stored id opens its
\* Operation; getInfrastructure and getDeploymentOperation return null for an
\* id that is not stored, the stored object otherwise, and change nothing.
C29_UnknownIdTouchesNothing ==
  [][ \A c \in NewCalls :
        LET t == tasks'[c]
        IN  /\ t.kind \in {"update", "destroy"} =>
                 IF t.target \in DOMAIN infrastructures
                   THEN c \in DOMAIN deploymentOperations' /\ t.outcome = "returned"
                   ELSE /\ t.pc = "done" /\ t.outcome = "raised"
                        /\ \A e \in t.error : e.code = "RESOURCE_NOT_FOUND"
                        /\ t.error # None
                        /\ StoresUnchanged
            /\ t.kind = "getInfrastructure" =>
                 /\ t.outcome = "returned" /\ StoresUnchanged
                 /\ t.result = (IF t.target \in DOMAIN infrastructures
                                  THEN Some(t.target) ELSE None)
            /\ t.kind = "getDeploymentOperation" =>
                 /\ t.outcome = "returned" /\ StoresUnchanged
                 /\ t.result = (IF t.target \in DOMAIN deploymentOperations
                                  THEN Some(t.target) ELSE None) ]_vars

\* a destroy of an unknown id has raised and a getDeploymentOperation of an
\* unknown id has returned null, the stores still empty
C29_Witness ==
  /\ \E c \in Calls :
       /\ tasks[c].kind = "destroy"
       /\ tasks[c].target = UnknownId
       /\ RaisedWith(c, "RESOURCE_NOT_FOUND")
  /\ \E c \in Calls :
       /\ tasks[c].kind = "getDeploymentOperation"
       /\ tasks[c].target = UnknownId
       /\ tasks[c].result = None
       /\ tasks[c].outcome = "returned"
  /\ infrastructures = <<>>
  /\ deploymentOperations = <<>>

\* the detached creates that return in this step with their records stored
DetachedReturns ==
  {c \in NewCalls : tasks'[c].detached /\ c \in DOMAIN deploymentOperations'}

\* C30 as claimed: when the detached create returns, the Infrastructure is
\* pending or provisioning with an empty resource list, the Operation is pending
\* or in_progress, and total_steps is the number of resources requested.
C30_ReturnsBeforeAnyStep ==
  [][ \A c \in DetachedReturns :
        /\ tasks'[c].outcome = "returned"
        /\ infrastructures'[c].status \in {"pending", "provisioning"}
        /\ infrastructures'[c].resources = <<>>
        /\ deploymentOperations'[c].status \in {"pending", "in_progress"}
        /\ deploymentOperations'[c].total_steps = Len(tasks'[c].request.resources) ]_vars

\* C30 as amended: when the detached create returns, total_steps is the number
\* of resources requested, the resource list is empty and no step is counted;
\* with at least one resource requested the Infrastructure is provisioning and
\* the Operation in_progress, its first createResource call under way; with none
\* requested the Operation is already completed and the Infrastructure active.
C30_ReturnsAtFirstAwait ==
  [][ \A c \in DetachedReturns :
        /\ tasks'[c].outcome = "returned"
        /\ infrastructures'[c].resources = <<>>
        /\ deploymentOperations'[c].completed_steps = 0
        /\ deploymentOperations'[c].total_steps = Len(tasks'[c].request.resources)
        /\ IF tasks'[c].request.resources = <<>>
             THEN /\ infrastructures'[c].status = "active"
                  /\ deploymentOperations'[c].status = "completed"
                  /\ providerCalls'[c] = <<>>
             ELSE /\ infrastructures'[c].status = "provisioning"
                  /\ deploymentOperations'[c].status = "in_progress"
                  /\ Len(providerCalls'[c]) = 1
                  /\ providerCalls'[c][1].result = "pending" ]_vars

\* a detached create of three resources has returned and its first
\* createResource call has not come back yet
C30_Witness ==
  \E c \in CreateCalls :
    /\ tasks[c].detached
    /\ tasks[c].outcome = "returned"
    /\ tasks[c].pc = "createResource"
    /\ Len(tasks[c].request.resources) = 3
    /\ infrastructures[c].resources = <<>>
    /\ deploymentOperations[c].status = "in_progress"
\* the positions of the values of s in the list l, 0 for a value l has not
PositionsIn(s, l) ==
  [k \in 1..Len(s) |->
     LET hits == {j \in 1..Len(l) : l[j] = s[k]}
     IN  IF hits = {} THEN 0 ELSE CHOOSE j \in hits : \A h \in hits : j <= h]
StrictlyIncreasing(s) == \A k \in 1..(Len(s) - 1) : s[k] < s[k + 1]
CallsFrom(c, from) ==
  IF c \in DOMAIN providerCalls
    THEN SelectSeq(providerCalls[c], LAMBDA e : e.from = from)
    ELSE <<>>
Resources(log) == [k \in 1..Len(log) |-> log[k].resource]
AwaitsProvider(t) == t.pc \in {"createResource", "deleteResource", "cleanup"}

\* C31: of the provider calls one operation has issued only the last can be in
\* flight, and it is in flight exactly while the loop awaits it; the
\* createResource calls follow the request's resource list, the deleteResource
\* calls of a teardown the reversed list it took, and those of a rollback
\* created_resources, each in the order of that list.
C31_OneCallInFlight ==
  \A c \in DOMAIN providerCalls :
    LET log == providerCalls[c]
        t == tasks[c]
    IN  /\ \A k \in 1..(Len(log) - 1) : log[k].result # "pending"
        /\ (log # <<>> /\ Last(log).result = "pending") <=> AwaitsProvider(t)
        /\ \A k \in 1..Len(CallsFrom(c, "deploy")) : CallsFrom(c, "deploy")[k].resource = k
        /\ LET pos == PositionsIn(Resources(CallsFrom(c, "destroy")), t.list)
           IN  StrictlyIncreasing(pos) /\ \A k \in 1..Len(pos) : pos[k] > 0
        /\ LET pos == PositionsIn(Resources(CallsFrom(c, "cleanup")),
                                  deploymentOperations[c].created_resources)
           IN  StrictlyIncreasing(pos) /\ \A k \in 1..Len(pos) : pos[k] > 0

\* a create awaits its third createResource call, the two before it returned,
\* while a teardown of the same Infrastructure awaits its second deleteResource
C31_Witness ==
  /\ \E c \in CreateCalls :
       /\ tasks[c].pc = "createResource"
       /\ Len(providerCalls[c]) = 3
       /\ providerCalls[c][3].result = "pending"
  /\ \E c \in DestroyCalls :
       /\ tasks[c].pc = "deleteResource"
       /\ Len(providerCalls[c]) = 2
       /\ providerCalls[c][1].result = "ok"
       /\ providerCalls[c][2].result = "pending"
\* the service calls that take this step
Stepped ==
  {c \in DOMAIN tasks' :
     \/ c \notin DOMAIN tasks
     \/ tasks'[c] # tasks[c]
     \/ (c \in DOMAIN providerCalls /\ providerCalls'[c] # providerCalls[c])}
Mutating == {"create", "update", "destroy"}

\* C32: a step of a create, update or destroy on one Infrastructure leaves the
\* record of every other Infrastructure, and every Operation record that
\* targets another Infrastructure, as it was; one step belongs to one call.
C32_NoInterference ==
  [][ /\ Cardinality(Stepped) = 1
      /\ \A c \in Stepped :
           IF tasks'[c].kind \in Mutating
             THEN /\ \A y \in DOMAIN infrastructures' \ {tasks'[c].target} :
                       /\ y \in DOMAIN infrastructures
                       /\ infrastructures'[y] = infrastructures[y]
                  /\ \A o \in DOMAIN deploymentOperations' :
                       deploymentOperations'[o].infrastructure_id # tasks'[c].target =>
                         /\ o \in DOMAIN deploymentOperations
                         /\ deploymentOperations'[o] = deploymentOperations[o]
             ELSE /\ infrastructures' = infrastructures
                  /\ deploymentOperations' = deploymentOperations ]_vars

\* two Infrastructures of one workspace hold a droplet each; one has been
\* destroyed, the other is still active with its droplet
C32_Witness ==
  \E a, b \in DOMAIN infrastructures :
    /\ a # b
    /\ infrastructures[a].workspace_id = infrastructures[b].workspace_id
    /\ infrastructures[a].status = "destroyed"
    /\ Len(infrastructures[a].resources) = 1
    /\ infrastructures[b].status = "active"
    /\ Len(infrastructures[b].resources) = 1
\* s lists the members of S, each once, those with the greater key first
ListsDescending(s, S, key) ==
  /\ Elems(s) = S
  /\ Len(s) = Cardinality(S)
  /\ \A j, k \in 1..Len(s) : j < k => key[s[j]] >= key[s[k]]

\* C33: listDeploymentOperations(id) returns the stored Operations of that
\* Infrastructure and no other, each once, the later started first;
\* listInfrastructure(w) returns the stored Infrastructures of that workspace and
\* no other, each once, the later created first; neither changes a store.
C33_ListsFilteredSorted ==
  [][ \A c \in NewCalls :
        LET t == tasks'[c]
        IN  /\ t.kind = "listDeploymentOperations" =>
                 /\ ListsDescending(t.result,
                       {o \in DOMAIN deploymentOperations :
                          deploymentOperations[o].infrastructure_id = t.target},
                       [o \in DOMAIN deploymentOperations |->
                          deploymentOperations[o].started_at])
                 /\ StoresUnchanged
                 /\ t.outcome = "returned"
            /\ t.kind = "listInfrastructure" =>
                 /\ ListsDescending(t.result,
                       {i \in DOMAIN infrastructures :
                          infrastructures[i].workspace_id = t.target},
                       [i \in DOMAIN infrastructures |-> infrastructures[i].created_at])
                 /\ StoresUnchanged
                 /\ t.outcome = "returned" ]_vars

\* the list of a workspace with two Infrastructures has returned both, the
\* later created first
C33_Witness ==
  \E c \in Calls :
    /\ tasks[c].kind = "listInfrastructure"
    /\ Len(tasks[c].result) = 2
    /\ infrastructures[tasks[c].result[1]].created_at
         > infrastructures[tasks[c].result[2]].created_at
\* C34: a call of the destroy_infrastructure tool whose input has not
\* confirm = true ends with an error result, opens no Operation, makes no
\* provider call and changes no record; the service's destroyInfrastructure is
\* entered by the tool only with confirm = true.
C34_DestroyNeedsConfirm ==
  [][ \A c \in NewCalls :
        LET t == tasks'[c]
        IN  /\ t.kind = "destroy_infrastructure" =>
                 /\ t.tool # Some("true")
                 /\ t.result = Some("isError")
                 /\ StoresUnchanged
                 /\ statusWrites' = statusWrites
            /\ (t.kind = "destroy" /\ t.tool # None) => t.tool = Some("true")
            /\ (t.tool # None /\ t.tool # Some("true")) => t.kind = "destroy_infrastructure"
    ]_vars

\* the tool has been called with confirm = false on a stored Infrastructure and
\* then with confirm = true, and that teardown of its two resources has completed
C34_Witness ==
  \E a, b \in Calls :
    /\ tasks[a].kind = "destroy_infrastructure"
    /\ tasks[a].tool = Some("false")
    /\ tasks[a].target \in DOMAIN infrastructures
    /\ tasks[b].kind = "destroy"
    /\ tasks[b].tool = Some("true")
    /\ tasks[b].target = tasks[a].target
    /\ a < b
    /\ deploymentOperations[b].status = "completed"
    /\ Len(infrastructures[tasks[b].target].resources) = 2
\* the resource patches of the update request that call c was given
PatchesOf(c) ==
  IF IsSome(tasks[c].request.resources) THEN The(tasks[c].request.resources) ELSE <<>>

\* C35: a completed update Operation has completed_steps = total_steps = 1 +
\* the number of resource patches, and updated_resources holds the ids of the
\* patches that name a resource of the Infrastructure, each once.
C35_UpdateCountsEveryPatch ==
  \A o \in DOMAIN deploymentOperations :
    (deploymentOperations[o].operation_type = "update"
       /\ deploymentOperations[o].status = "completed") =>
      LET op == deploymentOperations[o]
          inf == infrastructures[op.infrastructure_id]
          patched == {PatchesOf(o)[k].id : k \in 1..Len(PatchesOf(o))}
                       \cap {inf.resources[k].id : k \in 1..Len(inf.resources)}
      IN  /\ op.total_steps = 1 + Len(PatchesOf(o))
          /\ op.completed_steps = op.total_steps
          /\ Elems(op.updated_resources) = patched
          /\ Len(op.updated_resources) = Cardinality(patched)
\* C36: in a fair run every Operation that is opened is completed or failed
\* at some later time.
C36_OperationsEnd ==
  \A o \in 1..MaxFairCalls :
    (o \in DOMAIN deploymentOperations)
      ~> (o \in DOMAIN deploymentOperations /\ IsTerminal(deploymentOperations[o]))

\* a create has ended failed after a rollback none of whose deletes succeeded,
\* and a teardown of the same Infrastructure has failed on a provider delete
C36_Witness ==
  /\ \E c \in CreateCalls :
       /\ tasks[c].pc = "done"
       /\ c \in DOMAIN deploymentOperations
       /\ deploymentOperations[c].status = "failed"
       /\ deploymentOperations[c].created_resources # <<>>
       /\ deploymentOperations[c].deleted_resources = <<>>
       /\ CleanupCalls(c) # <<>>
  /\ \E d \in DestroyCalls :
       /\ tasks[d].pc = "done"
       /\ deploymentOperations[d].status = "failed"
       /\ HasFailedCall(providerCalls[d])
\* the deleteResource calls that have succeeded, as <<call, position>>
SucceededDeletes ==
  {e \in UNION {{<<c, k>> : k \in 1..Len(providerCalls[c])} : c \in DOMAIN providerCalls} :
     /\ providerCalls[e[1]][e[2]].method = "deleteResource"
     /\ providerCalls[e[1]][e[2]].result = "ok"}
DeletedArg(e) == providerCalls[e[1]][e[2]].arg

\* no provider_id has been deleted successfully twice
C37_State ==
  \A e, f \in SucceededDeletes : DeletedArg(e) = DeletedArg(f) => e = f

\* the calls that issue a deleteResource call in this step
IssuesDelete ==
  {c \in DOMAIN providerCalls' :
     /\ Len(providerCalls'[c]) > (IF c \in DOMAIN providerCalls THEN Len(providerCalls[c]) ELSE 0)
     /\ Last(providerCalls'[c]).method = "deleteResource"}

\* a deleteResource call is issued only for a resource not marked deleted
C37_Step ==
  \A c \in IssuesDelete :
    LET inf == infrastructures[tasks'[c].target]
        k == FindResource(inf.resources, Last(providerCalls'[c]).resource)
    IN  inf.resources[k].status # "deleted"

\* C37: over the life of an Infrastructure no provider_id is passed to two
\* deleteResource calls that succeed, and no deleteResource call is issued for
\* a resource that is already marked deleted.
C37_DeleteAtMostOnce == []C37_State /\ [][C37_Step]_vars
\* C38: whenever an Infrastructure is destroyed, every resource in its list is
\* marked deleted.
C38_DestroyedMeansAllDeleted ==
  \A i \in DOMAIN infrastructures :
    infrastructures[i].status = "destroyed" =>
      \A k \in 1..Len(infrastructures[i].resources) :
        infrastructures[i].resources[k].status = "deleted"
AllFailed(posts) == \A k \in 1..Len(posts) : posts[k].result = "failed"
Occurrences(s, v) == Cardinality({k \in 1..Len(s) : s[k] = v})

\* what holds of every streamError call at any time
C39_State ==
  \A e \in DOMAIN streams :
    LET st == streams[e]
    IN  /\ Len(st.posts) <= retryAttempts
        /\ AllFailed(SubSeq(st.posts, 1, Len(st.posts) - 1))
        /\ st.sent = Some(TRUE) <=> Last(st.posts).result = "ok"
        /\ st.sent = Some(FALSE) <=> (Len(st.posts) = retryAttempts /\ AllFailed(st.posts))
        /\ st.outcome \in {"pending", "returned"}
        /\ st.pc = "done" <=> st.outcome = "returned"
        /\ st.pc = "done" <=> st.sent # None
        /\ Occurrences(emitted, e) = 1

\* a streamError call appends its event to the buffer and emits it before its
\* first POST; no other step emits anything
C39_Step ==
  /\ \A e \in DOMAIN streams' \ DOMAIN streams :
       /\ streamBuffer' # <<>> /\ Last(streamBuffer') = e
       /\ emitted' = Append(emitted, e)
       /\ streams'[e].posts = <<[result |-> "pending"]>>
  /\ DOMAIN streams' = DOMAIN streams => emitted' = emitted

\* C39: for one event sendToWatson makes at most three POSTs, none after one
\* that succeeded, and fails exactly when the third has failed; streamError
\* returns either way, never raises, and has appended the event to the buffer
\* and emitted it once, before the first POST.
C39_AtMostThreePosts == []C39_State /\ [][C39_Step]_vars

\* one event was given up after three failed POSTs, another was delivered by
\* the second; both streamError calls have returned
C39_Witness ==
  \E e, f \in DOMAIN streams :
    /\ streams[e].sent = Some(FALSE)
    /\ Len(streams[e].posts) = 3
    /\ streams[e].outcome = "returned"
    /\ streams[f].sent = Some(TRUE)
    /\ Len(streams[f].posts) = 2
    /\ streams[f].outcome = "returned"

IsSuffix(a, b) == Len(a) <= Len(b) /\ a = SubSeq(b, Len(b) - Len(a) + 1, Len(b))

\* the buffer holds at most maxBufferSize events, the latest that arrived, in
\* the order of their arrival
C40_Buffer ==
  /\ Len(streamBuffer) <= maxBufferSize
  /\ IsSuffix(streamBuffer, emitted)

\* a streamError call adds its event and, when the buffer was full, evicts the
\* oldest; getRecentErrors(limit) returns the last min(limit, length) events of
\* the buffer and leaves it as it is
C40_Step ==
  /\ DOMAIN streams' # DOMAIN streams =>
       Len(streamBuffer') = Min(Len(streamBuffer) + 1, maxBufferSize)
  /\ (returned' # None /\ streams' = streams) =>
       /\ streamBuffer' = streamBuffer
       /\ LET r == The(returned')
              n == Min(r.limit, Len(streamBuffer))
          IN  r.events = SubSeq(streamBuffer, Len(streamBuffer) - n + 1, Len(streamBuffer))

\* C40: after any streamError and clearBuffer calls the buffer holds at most
\* 100 events, the most recent ones in arrival order, the oldest evicted first;
\* getRecentErrors(limit) returns the last min(limit, buffer length) of them.
C40_BufferHoldsLatest == []C40_Buffer /\ [][C40_Step]_vars
====
